---- MODULE Spec2Model ----
(***************************************************************************)
(* A model of the bookshelf-ai backend: the Reading lifecycle endpoints    *)
(* (routers/readings.py, mirrored by services/reading_service.py), the     *)
(* follow graph, likes, comments, the social feed and the review read      *)
(* endpoints (routers/social.py, routers/users.py), the book catalog       *)
(* (routers/books.py, services/book_service.py), signup (routers/auth.py)  *)
(* and the recommendations (routers/recommendations.py).                   *)
(* The database is the state; every HTTP handler is one action             *)
(* (sequential specifications) or one action per database round trip       *)
(* (concurrent specifications).                                            *)
(*                                                                         *)
(* Nullable columns hold Null (the empty set) or Some(v) (the singleton).  *)
(* Float averages are held in hundredths (4.67 is 467).                    *)
(***************************************************************************)
EXTENDS Integers, Sequences, FiniteSets, TLC

\* ------------------------------------------------------------------ bounds
NumUsers == 2
NumBooks == 1
MaxReadings == 3
MaxFollows == 3
MaxActivities == 3
MaxTime == 1
NumProcs == 2
MaxLikes == 3
MaxItems == 2
MaxLines == 3
MaxBooks == 3
MaxRecs == 3
MaxUsers == 3
MaxComments == 2
MaxLimit == 2

\* ------------------------------------------------------- nullable values
Null == {}
Some(v) == {v}
Val(x) == CHOOSE v \in x : TRUE

\* Python truthiness of Optional[int] / Optional[str] / Optional[bool]
TruthyInt(x) == x # Null /\ Val(x) # 0
TruthyStr(x) == x # Null /\ Val(x) # ""
TruthyBool(x) == x # Null /\ Val(x)

UserIds == 1..NumUsers
BookIds == 1..NumBooks
\* ids a request may name: the existing ones and one that does not exist
AnyUserId == 1..(NumUsers + 1)
AnyBookId == 1..(NumBooks + 1)
AnyReadingId == 1..(MaxReadings + 1)

WANT_TO_READ == "want_to_read"
CURRENTLY_READING == "currently_reading"
FINISHED == "finished"
ReadingStatus == {WANT_TO_READ, CURRENTLY_READING, FINISHED}

VARIABLES
    users,          \* id -> [username, is_private]             (table users)
    books,          \* id -> [title, author, isbn, open_library_id,
                    \*        average_rating, total_ratings, total_pages]
    readings,       \* set of Reading rows
    nextReadingId,  \* the readings id sequence
    follows,        \* set of UserFollow rows
    nextFollowId,   \* the user_follows id sequence
    activities,     \* sequence of UserActivity rows, in insertion order
    now,            \* the wall clock read by datetime.utcnow()
    resp,           \* the last completed request and its HTTP status
    edgeHistory,    \* history: the last successful follow/unfollow per pair
    procs,          \* the in-flight requests of the concurrent handlers
    likes,          \* set of ReviewLike rows
    nextLikeId,     \* the review_likes id sequence
    recCall,        \* the last get_ai_recommendations call: arguments and result
    recommendations,\* set of Recommendation rows
    nextRecId,      \* the recommendations id sequence
    comments,       \* set of ReviewComment rows
    nextCommentId,  \* the review_comments id sequence
    bookCall        \* the last get_or_create_book call: its body and outcome

\* the tables of the interactions with a review
likeTables == <<likes, nextLikeId, comments, nextCommentId>>
recTables == <<recCall, recommendations, nextRecId>>

\* the tables the Reading, follow and profile handlers do not write
otherTables == <<likeTables, recTables, bookCall>>

\* the tables the like and recommendation handlers do not write
coreTables == <<users, books, readings, nextReadingId, follows, nextFollowId,
                activities, now, edgeHistory, procs>>

vars == <<users, books, readings, nextReadingId, follows, nextFollowId,
          activities, now, resp, edgeHistory, procs, otherTables>>

\* ----------------------------------------------------------- aggregates
RECURSIVE SumRatings(_)
SumRatings(rows) ==
    IF rows = {} THEN 0
    ELSE LET r == CHOOSE x \in rows : TRUE
         IN Val(r.rating) + SumRatings(rows \ {r})

\* round(float(avg), 2) in hundredths; no tie arises for fewer than 8 ratings
RoundAvg(sum, count) == (200 * sum + count) \div (2 * count)

\* SELECT avg(rating), count(rating) WHERE book_id = b AND rating IS NOT NULL
RatingStats(rds, b) ==
    LET rated == {r \in rds : r.book_id = b /\ r.rating # Null}
    IN [total_ratings |-> Cardinality(rated), sum |-> SumRatings(rated)]

\* the write half of update_book_rating: skipped when no rating is left
ApplyRatingStats(bks, b, stats) ==
    IF stats.total_ratings > 0 /\ b \in DOMAIN bks
    THEN [bks EXCEPT ![b].average_rating = RoundAvg(stats.sum, stats.total_ratings),
                     ![b].total_ratings = stats.total_ratings]
    ELSE bks

update_book_rating(bks, rds, b) == ApplyRatingStats(bks, b, RatingStats(rds, b))

\* ------------------------------------------------------------ responses
Reply(op, u, target, code) == [op |-> op, user |-> u, target |-> target, code |-> code]

Activity(u, type, subject) == [user_id |-> u, activity_type |-> type, subject |-> subject]

\* the rows as they are inserted: created_at is the time of the INSERT
Logged(acts, t) ==
    [i \in DOMAIN acts |->
        [user_id |-> acts[i].user_id, activity_type |-> acts[i].activity_type,
         subject |-> acts[i].subject, created_at |-> t]]

\* ------------------------------------------------- POST /readings/ (create)
\* (mutant) the existence check is left out
create_reading_check_NoExisting(rds, bks, u, d) ==
    IF d.book_id \notin DOMAIN bks THEN 404 ELSE 0

\* the two SELECTs that open the handler: 0 when the insert may go ahead
create_reading_check(rds, bks, u, d) ==
    LET existing == {r \in rds : r.user_id = u /\ r.book_id = d.book_id}
    IN IF d.book_id \notin DOMAIN bks THEN 404
       ELSE IF Cardinality(existing) > 1 THEN 500   \* scalar_one_or_none raises
       ELSE IF existing # {} THEN 400
       ELSE 0

\* the Reading row built from the request: timestamps by status, pages from the book
NewReading(bks, id, u, d, t) ==
    [id |-> id, user_id |-> u, book_id |-> d.book_id, status |-> d.status,
     rating |-> d.rating, review |-> d.review,
     is_review_public |-> d.is_review_public,
     progress_pages |-> d.progress_pages,
     total_pages |-> IF ~TruthyInt(d.total_pages) /\ TruthyInt(bks[d.book_id].total_pages)
                     THEN bks[d.book_id].total_pages ELSE d.total_pages,
     started_at |-> IF d.status \in {CURRENTLY_READING, FINISHED} THEN Some(t) ELSE Null,
     finished_at |-> IF d.status = FINISHED THEN Some(t) ELSE Null,
     updated_at |-> Some(t)]

\* the UserActivity rows a create adds
create_activities(u, d) ==
    IF d.status = FINISHED
    THEN <<Activity(u, "finished_book", d.book_id)>>
         \o (IF TruthyInt(d.rating) THEN <<Activity(u, "rated_book", d.book_id)>> ELSE <<>>)
         \o (IF TruthyStr(d.review) THEN <<Activity(u, "reviewed_book", d.book_id)>> ELSE <<>>)
    ELSE <<>>

CreateReading(u, d) ==
    LET code == create_reading_check(readings, books, u, d)
        row == NewReading(books, nextReadingId, u, d, now)
        acts == create_activities(u, d)
    IN IF code # 0
       THEN /\ resp' = Reply("create_reading", u, d.book_id, code)
            /\ UNCHANGED <<users, books, readings, nextReadingId, follows, nextFollowId,
                           activities, now, edgeHistory, procs, otherTables>>
       ELSE /\ nextReadingId <= MaxReadings
            /\ Len(activities) + Len(acts) <= MaxActivities
            /\ readings' = readings \cup {row}
            /\ nextReadingId' = nextReadingId + 1
            /\ activities' = activities \o Logged(acts, now)
            /\ books' = IF TruthyInt(d.rating)
                        THEN update_book_rating(books, readings', d.book_id)
                        ELSE books
            /\ resp' = Reply("create_reading", u, d.book_id, 200)
            /\ UNCHANGED <<users, follows, nextFollowId, now, edgeHistory, procs, otherTables>>

\* ------------------------------------------- ownership of a Reading
\* (mutant) every caller passes the ownership check
not_authorized_Nobody(reading, u) == FALSE

\* if reading.user_id != current_user.id: raise HTTPException(403)
not_authorized(reading, u) == reading.user_id # u

\* ---------------------------------------------- PUT /readings/{id} (update)
\* reading_update.dict(exclude_unset=True) applied field by field
ApplyPatch(r, p) ==
    [r EXCEPT !.status = IF p.has_status THEN p.status ELSE @,
              !.rating = IF p.has_rating THEN p.rating ELSE @,
              !.review = IF p.has_review THEN p.review ELSE @,
              !.is_review_public = IF p.has_public THEN p.is_review_public ELSE @,
              !.progress_pages = IF p.has_progress THEN p.progress_pages ELSE @,
              !.total_pages = IF p.has_total THEN p.total_pages ELSE @]

\* (mutant) finishing does not stamp finished_at
handle_status_changes_NoFinishedAt(r, new_status, t) ==
    IF new_status = CURRENTLY_READING /\ r.started_at = Null
    THEN [r EXCEPT !.started_at = Some(t)]
    ELSE IF new_status = FINISHED
    THEN [r EXCEPT !.started_at = IF @ = Null THEN Some(t) ELSE @,
                   !.progress_pages = IF TruthyInt(r.total_pages) THEN r.total_pages ELSE @]
    ELSE r

\* (mutant) finishing stamps started_at again
handle_status_changes_Restart(r, new_status, t) ==
    IF new_status = CURRENTLY_READING /\ r.started_at = Null
    THEN [r EXCEPT !.started_at = Some(t)]
    ELSE IF new_status = FINISHED
    THEN [r EXCEPT !.started_at = Some(t),
                   !.finished_at = Some(t),
                   !.progress_pages = IF TruthyInt(r.total_pages) THEN r.total_pages ELSE @]
    ELSE r

\* timestamps on a status patch
_handle_status_changes(r, new_status, t) ==
    IF new_status = CURRENTLY_READING /\ r.started_at = Null
    THEN [r EXCEPT !.started_at = Some(t)]
    ELSE IF new_status = FINISHED
    THEN [r EXCEPT !.started_at = IF @ = Null THEN Some(t) ELSE @,
                   !.finished_at = Some(t),
                   !.progress_pages = IF TruthyInt(r.total_pages) THEN r.total_pages ELSE @]
    ELSE r

\* (mutant) rated_book is logged for every non-null rating in the patch
update_activities_NoDiff(u, old, new, p) ==
    (IF old.status # FINISHED /\ new.status = FINISHED
     THEN <<Activity(u, "finished_book", new.book_id)>> ELSE <<>>)
    \o (IF p.has_rating /\ p.rating # Null
        THEN <<Activity(u, "rated_book", new.book_id)>> ELSE <<>>)

\* the UserActivity rows an update adds (old = the row before the patch)
update_activities(u, old, new, p) ==
    (IF old.status # FINISHED /\ new.status = FINISHED
     THEN <<Activity(u, "finished_book", new.book_id)>> ELSE <<>>)
    \o (IF p.has_rating /\ p.rating # Null /\ old.rating # new.rating
        THEN <<Activity(u, "rated_book", new.book_id)>> ELSE <<>>)
    \o (IF p.has_review /\ p.review # Null /\ old.review # new.review /\ TruthyStr(new.review)
        THEN <<Activity(u, "reviewed_book", new.book_id)>> ELSE <<>>)

\* the row an update stores
UpdatedReading(r, p, t) ==
    LET patched == ApplyPatch(r, p)
        stamped == IF p.has_status THEN _handle_status_changes(patched, p.status, t)
                   ELSE patched
    IN [stamped EXCEPT !.updated_at = Some(t)]

UpdateReading(u, rid, p) ==
    LET found == {r \in readings : r.id = rid}
    IN IF found = {}
       THEN /\ resp' = Reply("update_reading", u, rid, 404)
            /\ UNCHANGED <<users, books, readings, nextReadingId, follows, nextFollowId,
                           activities, now, edgeHistory, procs, otherTables>>
       ELSE LET reading == CHOOSE r \in found : TRUE
                new == UpdatedReading(reading, p, now)
                acts == update_activities(u, reading, new, p)
            IN IF not_authorized(reading, u)
               THEN /\ resp' = Reply("update_reading", u, rid, 403)
                    /\ UNCHANGED <<users, books, readings, nextReadingId, follows,
                                   nextFollowId, activities, now, edgeHistory, procs, otherTables>>
               ELSE /\ Len(activities) + Len(acts) <= MaxActivities
                    /\ readings' = (readings \ {reading}) \cup {new}
                    /\ activities' = activities \o Logged(acts, now)
                    /\ books' = IF p.has_rating /\ p.rating # Null
                                THEN update_book_rating(books, readings', new.book_id)
                                ELSE books
                    /\ resp' = Reply("update_reading", u, rid, 200)
                    /\ UNCHANGED <<users, nextReadingId, follows, nextFollowId, now,
                                   edgeHistory, procs, otherTables>>

\* ------------------------------------------- DELETE /readings/{id} (delete)
\* Reading.likes and Reading.comments carry no delete cascade: the flush of
\* db.delete(reading) loads the rows of both collections and sets their
\* reading_id to NULL, which the NOT NULL columns refuse.
delete_blocked(lks, cms, rid) ==
    \/ \E l \in lks : l.reading_id = rid
    \/ \E c \in cms : c.reading_id = rid

DeleteReading(u, rid) ==
    LET found == {r \in readings : r.id = rid}
    IN IF found = {}
       THEN /\ resp' = Reply("delete_reading", u, rid, 404)
            /\ UNCHANGED <<users, books, readings, nextReadingId, follows, nextFollowId,
                           activities, now, edgeHistory, procs, otherTables>>
       ELSE LET reading == CHOOSE r \in found : TRUE
            IN IF not_authorized(reading, u)
               THEN /\ resp' = Reply("delete_reading", u, rid, 403)
                    /\ UNCHANGED <<users, books, readings, nextReadingId, follows,
                                   nextFollowId, activities, now, edgeHistory, procs, otherTables>>
               ELSE IF delete_blocked(likes, comments, rid)   \* IntegrityError
               THEN /\ resp' = Reply("delete_reading", u, rid, 500)
                    /\ UNCHANGED <<users, books, readings, nextReadingId, follows,
                                   nextFollowId, activities, now, edgeHistory, procs, otherTables>>
               ELSE /\ readings' = readings \ {reading}
                    /\ books' = update_book_rating(books, readings', reading.book_id)
                    /\ resp' = Reply("delete_reading", u, rid, 200)
                    /\ UNCHANGED <<users, nextReadingId, follows, nextFollowId,
                                   activities, now, edgeHistory, procs, otherTables>>

\* ------------------------------------------------ POST /social/follow
\* (mutant) the "already following" check is left out
follow_user_check_NoDuplicate(fls, usrs, a, t) ==
    IF t = a THEN 400
    ELSE IF t \notin DOMAIN usrs THEN 404
    ELSE 0

\* the checks that open the handler: 0 when the insert may go ahead
follow_user_check(fls, usrs, a, t) ==
    LET existing == {f \in fls : f.follower_id = a /\ f.following_id = t}
    IN IF t = a THEN 400
       ELSE IF t \notin DOMAIN usrs THEN 404
       ELSE IF Cardinality(existing) > 1 THEN 500   \* scalar_one_or_none raises
       ELSE IF existing # {} THEN 400
       ELSE 0

NewFollow(id, a, t) == [id |-> id, follower_id |-> a, following_id |-> t]

FollowUser(a, t) ==
    LET code == follow_user_check(follows, users, a, t)
    IN IF code # 0
       THEN /\ resp' = Reply("follow_user", a, t, code)
            /\ UNCHANGED <<users, books, readings, nextReadingId, follows, nextFollowId,
                           activities, now, edgeHistory, procs, otherTables>>
       ELSE /\ nextFollowId <= MaxFollows
            /\ Len(activities) < MaxActivities
            /\ follows' = follows \cup {NewFollow(nextFollowId, a, t)}
            /\ nextFollowId' = nextFollowId + 1
            /\ activities' = activities \o Logged(<<Activity(a, "followed_user", t)>>, now)
            /\ edgeHistory' = [edgeHistory EXCEPT ![<<a, t>>] = "followed"]
            /\ resp' = Reply("follow_user", a, t, 200)
            /\ UNCHANGED <<users, books, readings, nextReadingId, now, procs, otherTables>>

\* ------------------------------------- DELETE /social/unfollow/{user_id}
\* (mutant) the edge is looked up in the other direction
UnfollowEdges_Reversed(fls, a, t) ==
    {f \in fls : f.follower_id = t /\ f.following_id = a}

UnfollowEdges(fls, a, t) ==
    {f \in fls : f.follower_id = a /\ f.following_id = t}

UnfollowUser(a, t) ==
    LET found == UnfollowEdges(follows, a, t)
    IN IF Cardinality(found) # 1
       THEN /\ resp' = Reply("unfollow_user", a, t, IF found = {} THEN 404 ELSE 500)
            /\ UNCHANGED <<users, books, readings, nextReadingId, follows, nextFollowId,
                           activities, now, edgeHistory, procs, otherTables>>
       ELSE /\ follows' = follows \ found
            /\ edgeHistory' = [edgeHistory EXCEPT ![<<a, t>>] = "unfollowed"]
            /\ resp' = Reply("unfollow_user", a, t, 200)
            /\ UNCHANGED <<users, books, readings, nextReadingId, nextFollowId,
                           activities, now, procs, otherTables>>

\* --------------- GET /social/followers/{id} and GET /social/following/{id}
\* one profile per UserFollow row, in no stated order
get_user_followers(fls, uid) ==
    {[follow_id |-> f.id, id |-> f.follower_id] : f \in {g \in fls : g.following_id = uid}}

get_user_following(fls, uid) ==
    {[follow_id |-> f.id, id |-> f.following_id] : f \in {g \in fls : g.follower_id = uid}}

\* ------------------------------------------------------- PUT /users/me
\* usernames are numbered; the body carries username and is_private
update_my_profile_check(usrs, u, body) ==
    LET taken == {v \in DOMAIN usrs : v # u /\ usrs[v].username = body.username}
    IN IF body.has_username /\ TruthyInt(body.username) /\ body.username # usrs[u].username
       THEN (IF Cardinality(taken) > 1 THEN 500 ELSE IF taken # {} THEN 400 ELSE 0)
       ELSE 0

UpdatedUser(usr, body) ==
    [usr EXCEPT !.username = IF body.has_username THEN body.username ELSE @,
                !.is_private = IF body.has_private THEN body.is_private ELSE @]

\* (mutant) the users table has no UNIQUE index on username
UsernameUnique_NoIndex(usrs) == TRUE

\* the UNIQUE index on users.username, checked at commit
UsernameUnique(usrs) ==
    \A v \in DOMAIN usrs, w \in DOMAIN usrs :
        (v # w /\ usrs[v].username # Null) => usrs[v].username # usrs[w].username

UpdateMyProfile(u, body) ==
    LET code == update_my_profile_check(users, u, body)
        new == [users EXCEPT ![u] = UpdatedUser(users[u], body)]
    IN IF code # 0 \/ ~UsernameUnique(new)
       THEN /\ resp' = Reply("update_my_profile", u, u, IF code # 0 THEN code ELSE 500)
            /\ UNCHANGED <<users, books, readings, nextReadingId, follows, nextFollowId,
                           activities, now, edgeHistory, procs, otherTables>>
       ELSE /\ users' = new
            /\ resp' = Reply("update_my_profile", u, u, 200)
            /\ UNCHANGED <<books, readings, nextReadingId, follows, nextFollowId,
                           activities, now, edgeHistory, procs, otherTables>>

\* ------------------------------------------ endpoints that return Readings
\* A response is the set of its items; an item is the Reading's id and owner
\* and the review and flag the response carries for it.  The list endpoints
\* are modelled for a limit no smaller than the number of rows selected.
ReadingItem(r, review) ==
    [id |-> r.id, user_id |-> r.user_id, review |-> review,
     is_review_public |-> r.is_review_public]

\* GET /readings/{reading_id}
get_reading(rds, viewer, rid) ==
    {ReadingItem(r, r.review) : r \in {x \in rds : x.id = rid}}

\* GET /readings/user/{user_id}
get_user_readings(rds, usrs, viewer, uid) ==
    IF uid \notin DOMAIN usrs THEN {}
    ELSE {ReadingItem(r, r.review) : r \in {x \in rds : x.user_id = uid}}

\* GET /users/{user_id}/library
can_view_private(usrs, fls, viewer, uid) ==
    IF TruthyBool(usrs[uid].is_private) /\ uid # viewer
    THEN \E f \in fls : f.follower_id = viewer /\ f.following_id = uid
    ELSE uid = viewer

get_user_library(rds, usrs, fls, viewer, uid) ==
    IF uid \notin DOMAIN usrs THEN {}
    ELSE LET private == can_view_private(usrs, fls, viewer, uid)
             rows == {x \in rds : /\ x.user_id = uid
                                  /\ (private \/ x.is_review_public = Some(TRUE)
                                              \/ x.review = Null)}
         IN {ReadingItem(r, IF private \/ TruthyBool(r.is_review_public)
                            THEN r.review ELSE Null) : r \in rows}

\* GET /users/{user_id}/reviews
get_user_reviews(rds, usrs, viewer, uid) ==
    IF uid \notin DOMAIN usrs THEN {}
    ELSE {ReadingItem(r, r.review) :
            r \in {x \in rds : /\ x.user_id = uid
                               /\ x.is_review_public = Some(TRUE) /\ x.review # Null}}

\* GET /social/feed (recent_reviews)
\* (mutant) the edges are read in the other direction
following_ids_Followers(fls, viewer) ==
    {f.follower_id : f \in {g \in fls : g.following_id = viewer}} \cup {viewer}

following_ids(fls, viewer) ==
    {f.following_id : f \in {g \in fls : g.follower_id = viewer}} \cup {viewer}

get_social_feed_reviews(rds, fls, viewer) ==
    {ReadingItem(r, r.review) :
        r \in {x \in rds : /\ x.user_id \in following_ids(fls, viewer)
                           /\ x.is_review_public = Some(TRUE) /\ x.review # Null}}

\* ------------------------------ POST /social/reviews/{reading_id}/like
\* the two SELECTs that open the handler: 0 when the insert may go ahead
like_review_check(rds, lks, u, rid) ==
    LET found == {r \in rds : r.id = rid /\ r.is_review_public = Some(TRUE) /\ r.review # Null}
        existing == {l \in lks : l.user_id = u /\ l.reading_id = rid}
    IN IF found = {} THEN 404
       ELSE IF Cardinality(existing) > 1 THEN 500   \* scalar_one_or_none raises
       ELSE IF existing # {} THEN 400
       ELSE 0

NewLike(id, u, rid) == [id |-> id, user_id |-> u, reading_id |-> rid]

LikeReview(u, rid) ==
    LET code == like_review_check(readings, likes, u, rid)
    IN IF code # 0
       THEN /\ resp' = Reply("like_review", u, rid, code)
            /\ UNCHANGED <<users, books, readings, nextReadingId, follows, nextFollowId,
                           activities, now, edgeHistory, procs, likes, nextLikeId, recTables,
                           comments, nextCommentId, bookCall>>
       ELSE /\ nextLikeId <= MaxLikes
            /\ likes' = likes \cup {NewLike(nextLikeId, u, rid)}
            /\ nextLikeId' = nextLikeId + 1
            /\ resp' = Reply("like_review", u, rid, 200)
            /\ UNCHANGED <<users, books, readings, nextReadingId, follows, nextFollowId,
                           activities, now, edgeHistory, procs, recTables,
                           comments, nextCommentId, bookCall>>

\* --------------------------- DELETE /social/reviews/{reading_id}/unlike
UnlikeReview(u, rid) ==
    LET found == {l \in likes : l.user_id = u /\ l.reading_id = rid}
    IN IF Cardinality(found) # 1
       THEN /\ resp' = Reply("unlike_review", u, rid, IF found = {} THEN 404 ELSE 500)
            /\ UNCHANGED <<users, books, readings, nextReadingId, follows, nextFollowId,
                           activities, now, edgeHistory, procs, likes, nextLikeId, recTables,
                           comments, nextCommentId, bookCall>>
       ELSE /\ likes' = likes \ found
            /\ resp' = Reply("unlike_review", u, rid, 200)
            /\ UNCHANGED <<users, books, readings, nextReadingId, follows, nextFollowId,
                           activities, now, edgeHistory, procs, nextLikeId, recTables,
                           comments, nextCommentId, bookCall>>

\* ------------------------ POST /social/reviews/{reading_id}/comments
NewComment(id, u, rid) == [id |-> id, user_id |-> u, reading_id |-> rid]

AddReviewComment(u, rid) ==
    LET found == {r \in readings : r.id = rid /\ r.is_review_public = Some(TRUE) /\ r.review # Null}
    IN IF found = {}
       THEN /\ resp' = Reply("add_review_comment", u, rid, 404)
            /\ UNCHANGED <<users, books, readings, nextReadingId, follows, nextFollowId,
                           activities, now, edgeHistory, procs, otherTables>>
       ELSE /\ nextCommentId <= MaxComments
            /\ comments' = comments \cup {NewComment(nextCommentId, u, rid)}
            /\ nextCommentId' = nextCommentId + 1
            /\ resp' = Reply("add_review_comment", u, rid, 200)
            /\ UNCHANGED <<users, books, readings, nextReadingId, follows, nextFollowId,
                           activities, now, edgeHistory, procs, likes, nextLikeId, recTables,
                           bookCall>>

\* ------------------- GET /social/feed (recent_reviews with interactions)
\* (mutant) only the viewer's own likes are counted
feed_like_count_OwnOnly(lks, viewer, rid) ==
    Cardinality({l \in lks : l.reading_id = rid /\ l.user_id = viewer})

\* SELECT count(ReviewLike.id) WHERE reading_id = rid
feed_like_count(lks, viewer, rid) ==
    Cardinality({l \in lks : l.reading_id = rid})

\* the viewer's ReviewLike rows on rid, read with scalar_one_or_none
feed_viewer_likes(lks, viewer, rid) ==
    {l \in lks : l.reading_id = rid /\ l.user_id = viewer}

\* the reviews of the feed with like_count and is_liked; nothing is returned
\* when scalar_one_or_none raises on one of them
get_social_feed(rds, fls, lks, viewer) ==
    LET reviews == {x \in rds : /\ x.user_id \in following_ids(fls, viewer)
                                /\ x.is_review_public = Some(TRUE) /\ x.review # Null}
    IN IF \E r \in reviews : Cardinality(feed_viewer_likes(lks, viewer, r.id)) > 1
       THEN {}
       ELSE {[id |-> r.id, user_id |-> r.user_id,
              like_count |-> feed_like_count(lks, viewer, r.id),
              is_liked |-> feed_viewer_likes(lks, viewer, r.id) # {}] : r \in reviews}

\* list[:n] and LIMIT n
Take(list, n) == SubSeq(list, 1, IF Len(list) < n THEN Len(list) ELSE n)

\* ------------------- GET /social/feed (the two lists, ordered and limited)
\* the orders in which ORDER BY key DESC can return the rows S: rows with
\* equal keys come in any order (key is the function row -> sort key)
Descending(S, key) ==
    {f \in [1..Cardinality(S) -> S] :
        /\ \A i \in DOMAIN f, j \in DOMAIN f : i < j => (f[i] # f[j] /\ key[f[i]] >= key[f[j]])}

\* recent_activities: every list the query can return for the limit
feed_activities(acts, fls, viewer, limit) ==
    LET selected == {i \in DOMAIN acts : acts[i].user_id \in following_ids(fls, viewer)}
    IN {Take([k \in DOMAIN f |-> acts[f[k]]], limit) :
            f \in Descending(selected, [i \in selected |-> acts[i].created_at])}

\* recent_reviews: every list the query can return for the limit
feed_reviews(rds, fls, viewer, limit) ==
    LET selected == {x \in rds : /\ x.user_id \in following_ids(fls, viewer)
                                 /\ x.is_review_public = Some(TRUE) /\ x.review # Null}
    IN {Take(f, limit) : f \in Descending(selected, [r \in selected |-> Val(r.updated_at)])}

\* --------------------------------------------------------- POST /books/
\* the ISBN lookup, then the Open Library id lookup when the first found nothing
add_book_existing(bks, d) ==
    LET by_isbn == IF TruthyStr(d.isbn)
                   THEN {b \in DOMAIN bks : bks[b].isbn = d.isbn} ELSE {}
        by_olid == IF TruthyStr(d.open_library_id)
                   THEN {b \in DOMAIN bks : bks[b].open_library_id = d.open_library_id}
                   ELSE {}
    IN IF by_isbn # {} THEN by_isbn ELSE by_olid

\* Book(**book_data.dict()) with the column defaults
NewBook(d) ==
    [average_rating |-> 0, total_ratings |-> 0, total_pages |-> d.total_pages,
     title |-> d.title, author |-> d.author, isbn |-> d.isbn,
     open_library_id |-> d.open_library_id]

\* the UNIQUE indexes on books.isbn and books.open_library_id
BookKeysUnique(bks) ==
    \A b \in DOMAIN bks, c \in DOMAIN bks :
        b # c => /\ (bks[b].isbn # Null => bks[b].isbn # bks[c].isbn)
                 /\ (bks[b].open_library_id # Null
                        => bks[b].open_library_id # bks[c].open_library_id)

nextBookId(bks) == Cardinality(DOMAIN bks) + 1

AddBook(d) ==
    LET existing == add_book_existing(books, d)
        new == books @@ (nextBookId(books) :> NewBook(d))
    IN IF existing # {}
       THEN /\ resp' = Reply("add_book", 0, CHOOSE b \in existing : TRUE, 200)
            /\ UNCHANGED <<users, books, readings, nextReadingId, follows, nextFollowId,
                           activities, now, edgeHistory, procs, otherTables>>
       ELSE IF ~BookKeysUnique(new)
       THEN /\ resp' = Reply("add_book", 0, 0, 500)
            /\ UNCHANGED <<users, books, readings, nextReadingId, follows, nextFollowId,
                           activities, now, edgeHistory, procs, otherTables>>
       ELSE /\ nextBookId(books) <= MaxBooks
            /\ books' = new
            /\ resp' = Reply("add_book", 0, nextBookId(books), 200)
            /\ UNCHANGED <<users, readings, nextReadingId, follows, nextFollowId,
                           activities, now, edgeHistory, procs, otherTables>>

\* ---------------------------------------------- get_ai_recommendations
\* Strings are the titles and authors below; str.lower() and str.strip() are
\* tabulated on them.  Confidence is held in hundredths.
LowerCase(s) ==
    CASE s = "Dune" -> "dune"
      [] s = "Frank Herbert" -> "frank herbert"
      [] s = "Brian Herbert" -> "brian herbert"
      [] s = "Educated" -> "educated"
      [] s = "Tara Westover" -> "tara westover"
      [] s = "The Seven Husbands of Evelyn Hugo" -> "the seven husbands of evelyn hugo"
      [] s = "Taylor Jenkins Reid" -> "taylor jenkins reid"
      [] s = "The Midnight Library" -> "the midnight library"
      [] s = "Matt Haig" -> "matt haig"
      [] s = "Unknown Author" -> "unknown author"
      [] s = " Dune " -> " dune "
      [] s = "Herbert" -> "herbert"
      [] OTHER -> s

StripStr(s) ==
    CASE s = " Dune " -> "Dune"
      [] s = " dune " -> "dune"
      [] OTHER -> s

\* a value of a JSON item: absent, a number where a string is expected, or a string
Missing == "<missing>"
Number == "<number>"

Rec(title, author, reason, confidence) ==
    [title |-> title, author |-> author, reason |-> reason, confidence |-> confidence]

get_fallback_recommendations ==
    <<Rec("The Seven Husbands of Evelyn Hugo", "Taylor Jenkins Reid", "fallback", 75),
      Rec("Educated", "Tara Westover", "fallback", 80),
      Rec("The Midnight Library", "Matt Haig", "fallback", 78)>>

\* an outcome of a block of Python: an exception, a returned list, or neither
Raise(exc) == [exc |-> Some(exc), ret |-> Null]
Return(list) == [exc |-> Null, ret |-> Some(list)]
FallThrough == [exc |-> Null, ret |-> Null]

\* f"{title}|{author}" of the lowered, stripped fields, as a pair
Combo(title, author) == <<StripStr(LowerCase(title)), StripStr(LowerCase(author))>>

user_book_combos(user_books) == {Combo(b.title, b.author) : b \in user_books}

FilterOwned(list, user_books) ==
    SelectSeq(list, LAMBDA r : Combo(r.title, r.author) \notin user_book_combos(user_books))

\* float(rec.get('confidence', 0.7)) and float(conf_str)
FloatRaises(c) == c \notin {Missing, "0.85", "0.9"}
ParseFloat(c) == CASE c = "0.85" -> 85 [] c = "0.9" -> 90 [] OTHER -> 70

\* parse_text_recommendations: the line scanner.  A line is its tag (the
\* prefix it starts with, or "other") and the text after the colon, stripped.
RECURSIVE ScanLines(_, _, _, _)
ScanLines(lines, i, current_rec, recs) ==
    IF i > Len(lines)
    THEN (IF current_rec.title # Null THEN Append(recs, current_rec)
          ELSE recs)
    ELSE LET line == lines[i]
         IN IF line.tag = "Title"
            THEN ScanLines(lines, i + 1,
                           [title |-> Some(line.value), author |-> Null,
                            reason |-> Null, confidence |-> Null],
                           IF current_rec.title # Null
                           THEN Append(recs, current_rec)
                           ELSE recs)
            ELSE IF line.tag = "Author"
            THEN ScanLines(lines, i + 1, [current_rec EXCEPT !.author = Some(line.value)],
                           recs)
            ELSE IF line.tag = "Reason"
            THEN ScanLines(lines, i + 1, [current_rec EXCEPT !.reason = Some(line.value)],
                           recs)
            ELSE IF line.tag = "Confidence"
            THEN ScanLines(lines, i + 1,
                           [current_rec EXCEPT !.confidence =
                               Some(IF FloatRaises(line.value) THEN 70
                                    ELSE ParseFloat(line.value))],
                           recs)
            ELSE ScanLines(lines, i + 1, current_rec, recs)

EmptyRec == [title |-> Null, author |-> Null, reason |-> Null, confidence |-> Null]

FillMissing(r) ==
    Rec(Val(r.title),
        IF r.author = Null THEN "Unknown Author" ELSE Val(r.author),
        IF r.reason = Null THEN "Recommended based on your reading preferences"
        ELSE Val(r.reason),
        IF r.confidence = Null THEN 70 ELSE Val(r.confidence))

parse_text_recommendations(lines, n) ==
    LET recs == ScanLines(lines, 1, EmptyRec, <<>>)
    IN Take([i \in DOMAIN recs |-> FillMissing(recs[i])], n)

\* the JSON path (the inner try block).  json tells what json.loads makes of
\* the cleaned content ("invalid", "not_object" or "object"); items is the
\* list under "recommendations".
HasKeys(item) == item.title # Missing /\ item.author # Missing /\ item.reason # Missing

ItemRaises(item) ==
    HasKeys(item) /\ (\/ item.title = Number \/ item.author = Number
                      \/ item.reason = Number \/ FloatRaises(item.confidence))

CleanItem(item) ==
    Rec(StripStr(item.title), StripStr(item.author), StripStr(item.reason),
        ParseFloat(item.confidence))

json_attempt(json, items, user_books, n) ==
    IF json = "invalid" THEN Raise("JSONDecodeError")
    ELSE IF json = "not_object" THEN Raise("AttributeError")
    ELSE IF \E i \in DOMAIN items : ItemRaises(items[i]) THEN Raise("AttributeError")
    ELSE LET keyed == SelectSeq(items, HasKeys)
             valid_recommendations == [i \in DOMAIN keyed |-> CleanItem(keyed[i])]
             filtered == IF user_books # {}
                         THEN FilterOwned(valid_recommendations, user_books)
                         ELSE valid_recommendations
         IN IF valid_recommendations # <<>> /\ filtered # <<>>
            THEN Return(Take(filtered, n))
            ELSE FallThrough

\* (mutant) the outer handler catches JSON errors only
outer_except_JsonOnly(exc) == exc = "JSONDecodeError"

\* except json.JSONDecodeError / except Exception
inner_except(exc) == exc = "JSONDecodeError"
outer_except(exc) == TRUE

\* the outer try block: the HTTP call and what is made of the reply
api_attempt(reply, user_books, n) ==
    IF reply.kind = "network_error" THEN Raise("TimeoutException")
    ELSE IF reply.kind = "bad_status" THEN FallThrough
    ELSE IF reply.kind = "bad_body" THEN Raise("JSONDecodeError")
    ELSE IF reply.kind = "no_choices" THEN Raise("KeyError")
    ELSE IF reply.kind = "null_content" THEN Raise("TypeError")
    ELSE LET inner == json_attempt(reply.json, reply.items, user_books, n)
         IN IF inner.ret # Null THEN inner
            ELSE IF inner.exc # Null /\ ~inner_except(Val(inner.exc)) THEN inner
            ELSE Return(parse_text_recommendations(reply.lines, n))

\* the tail of the function: the fallback list without the owned books,
\* or the whole list when nothing is left
filter_fallback(user_books) ==
    LET filtered_fallback == FilterOwned(get_fallback_recommendations, user_books)
    IN IF user_books # {} /\ filtered_fallback # <<>> THEN filtered_fallback
       ELSE get_fallback_recommendations

get_ai_recommendations(has_key, history_empty, user_books, n, reply) ==
    IF ~has_key THEN Return(get_fallback_recommendations)
    ELSE IF history_empty THEN Return(get_fallback_recommendations)
    ELSE LET attempt == api_attempt(reply, user_books, n)
         IN IF attempt.ret # Null THEN attempt
            ELSE IF attempt.exc # Null /\ ~outer_except(Val(attempt.exc)) THEN attempt
            ELSE Return(filter_fallback(user_books))

\* a call that has not been made, with its arguments
Call(has_key, history_empty, user_books, n, reply) ==
    [called |-> FALSE, has_key |-> has_key, history_empty |-> history_empty,
     user_books |-> user_books, n |-> n, reply |-> reply, result |-> FallThrough]

NoCall == Call(FALSE, TRUE, {}, 0, [kind |-> "none"])

\* the call is made and its outcome recorded
GetAiRecommendations ==
    /\ ~recCall.called /\ recCall # NoCall
    /\ recCall' = [recCall EXCEPT
                      !.called = TRUE,
                      !.result = get_ai_recommendations(recCall.has_key,
                                     recCall.history_empty, recCall.user_books,
                                     recCall.n, recCall.reply)]
    /\ UNCHANGED <<coreTables, resp, likeTables, recommendations, nextRecId, bookCall>>

\* ------------------------------------- POST /recommendations/generate
\* (mutant) no earlier row is selected for deletion
existing_recs_None(recs, u) == {}

\* SELECT Recommendation WHERE user_id = u: the rows the handler deletes
existing_recs(recs, u) == {r \in recs : r.user_id = u}

\* the (title, author) of the Books joined to the user's Readings
user_books_list(bks, rds, u) ==
    {[title |-> bks[r.book_id].title, author |-> bks[r.book_id].author] :
        r \in {x \in rds : x.user_id = u}}

\* the Book row made from the first Open Library search result
BookFromSearch(book_data) ==
    [average_rating |-> 0, total_ratings |-> 0, total_pages |-> Null,
     title |-> book_data.title, author |-> book_data.author, isbn |-> book_data.isbn,
     open_library_id |-> book_data.open_library_key]

NewRecommendation(id, u, b, ai_rec) ==
    [id |-> id, user_id |-> u, book_id |-> b, confidence_score |-> ai_rec.confidence,
     is_dismissed |-> FALSE]

\* The session of one request: books and recs are what the session sees,
\* cbooks and crecs what is committed; broken is set when a commit has
\* failed, after which every statement on the session raises.
AddRecommendation(st, u, b, ai_rec) ==
    [st EXCEPT !.recs = @ \cup {NewRecommendation(st.nextRecId, u, b, ai_rec)},
               !.nextRecId = @ + 1]

\* the body of the loop for one item; search_result is Null for no result
process_rec(st, u, ai_rec, search_result) ==
    IF st.broken \/ search_result = Null THEN st
    ELSE LET book_data == Val(search_result)
             same == {b \in DOMAIN st.books : /\ st.books[b].title = book_data.title
                                              /\ st.books[b].author = book_data.author}
             new == st.books @@ (nextBookId(st.books) :> BookFromSearch(book_data))
         IN IF Cardinality(same) > 1 THEN st          \* scalar_one_or_none raises
            ELSE IF same # {}
            THEN AddRecommendation(st, u, CHOOSE b \in same : TRUE, ai_rec)
            ELSE IF ~BookKeysUnique(new)               \* the commit fails
            THEN [st EXCEPT !.books = st.cbooks, !.recs = st.crecs, !.broken = TRUE]
            ELSE AddRecommendation([st EXCEPT !.books = new, !.cbooks = new,
                                              !.crecs = st.recs],
                                   u, nextBookId(st.books), ai_rec)

RECURSIVE process_all(_, _, _, _, _)
process_all(st, u, ai_recommendations, search, i) ==
    IF i > Len(ai_recommendations) THEN st
    ELSE process_all(process_rec(st, u, ai_recommendations[i], search[i]),
                     u, ai_recommendations, search, i + 1)

GenerateRecommendations(u, has_key, reply, search) ==
    LET start == [books |-> books, cbooks |-> books,
                  recs |-> recommendations \ existing_recs(recommendations, u),
                  crecs |-> recommendations, broken |-> FALSE, nextRecId |-> nextRecId]
        history_empty == \A r \in readings : r.user_id # u
        ai == get_ai_recommendations(has_key, history_empty,
                                     user_books_list(books, readings, u), 8, reply)
        end == process_all(start, u, Val(ai.ret), search, 1)
    IN IF ai.ret = Null
       THEN /\ resp' = Reply("generate_recommendations", u, 0, 500)
            /\ UNCHANGED <<users, books, readings, nextReadingId, follows, nextFollowId,
                           activities, now, edgeHistory, procs, likeTables, recTables, bookCall>>
       ELSE /\ end.nextRecId <= MaxRecs + 1
            /\ Cardinality(DOMAIN end.books) <= MaxBooks
            /\ books' = IF end.broken THEN end.cbooks ELSE end.books
            /\ recommendations' = IF end.broken THEN end.crecs ELSE end.recs
            /\ nextRecId' = end.nextRecId
            /\ resp' = Reply("generate_recommendations", u, 0,
                             IF end.broken THEN 500 ELSE 200)
            /\ UNCHANGED <<users, readings, nextReadingId, follows, nextFollowId,
                           activities, now, edgeHistory, procs, likeTables, recCall,
                           bookCall>>

\* ----------------------------- PUT /recommendations/{id}/dismiss
DismissRecommendation(u, rid) ==
    LET found == {r \in recommendations : r.id = rid /\ r.user_id = u}
    IN IF found = {}
       THEN /\ resp' = Reply("dismiss_recommendation", u, rid, 404)
            /\ UNCHANGED <<users, books, readings, nextReadingId, follows, nextFollowId,
                           activities, now, edgeHistory, procs, likeTables, recTables, bookCall>>
       ELSE /\ recommendations' = (recommendations \ found)
                                  \cup {[r EXCEPT !.is_dismissed = TRUE] : r \in found}
            /\ resp' = Reply("dismiss_recommendation", u, rid, 200)
            /\ UNCHANGED <<users, books, readings, nextReadingId, follows, nextFollowId,
                           activities, now, edgeHistory, procs, likeTables,
                           recCall, nextRecId, bookCall>>

\* ------------------------------------ BookService.get_or_create_book
\* 'needle' occurs in 'hay' (both lowercased), for the strings of the model
Substring(needle, hay) ==
    \/ needle = hay
    \/ <<needle, hay>> \in {<<"herbert", "frank herbert">>, <<"herbert", "brian herbert">>}

\* column ILIKE '%pattern%'
ilike(column, pattern) == Substring(LowerCase(pattern), LowerCase(column))

\* scalar_one_or_none() on the rows a SELECT found
scalar_one_or_none(rows) ==
    IF Cardinality(rows) > 1 THEN Raise("MultipleResultsFound")
    ELSE Return(rows)

\* (mutant) the Open Library id is tried before the ISBN
find_existing_book_IdFirst(bks, d) ==
    LET by_isbn == {b \in DOMAIN bks : bks[b].isbn = d.isbn}
        by_id == {b \in DOMAIN bks : bks[b].open_library_id = d.open_library_id}
    IN IF TruthyStr(d.open_library_id) /\ by_id # {} THEN scalar_one_or_none(by_id)
       ELSE IF TruthyStr(d.isbn) /\ by_isbn # {} THEN scalar_one_or_none(by_isbn)
       ELSE Return(Null)

\* the ISBN lookup, then the Open Library id lookup, then title and author;
\* the result is the set of the book found (empty for None)
_find_existing_book(bks, d) ==
    LET by_isbn == {b \in DOMAIN bks : bks[b].isbn = d.isbn}
        by_id == {b \in DOMAIN bks : bks[b].open_library_id = d.open_library_id}
        by_title == {b \in DOMAIN bks : /\ ilike(bks[b].title, d.title)
                                        /\ ilike(bks[b].author, d.author)}
    IN IF TruthyStr(d.isbn) /\ by_isbn # {} THEN scalar_one_or_none(by_isbn)
       ELSE IF TruthyStr(d.open_library_id) /\ by_id # {} THEN scalar_one_or_none(by_id)
       ELSE IF d.title # "" /\ d.author # "" THEN scalar_one_or_none(by_title)
       ELSE Return(Null)

\* a recorded call: the body and the book returned (Null when it raised)
BookCall(d, book) == [called |-> TRUE, body |-> d, book |-> book]

NoBookCall ==
    [called |-> FALSE,
     body |-> [title |-> "", author |-> "", isbn |-> Null, open_library_id |-> Null,
               total_pages |-> Null],
     book |-> Null]

GetOrCreateBook(d) ==
    LET existing_book == _find_existing_book(books, d)
        new == books @@ (nextBookId(books) :> NewBook(d))
    IN IF existing_book.exc # Null \/ (Val(existing_book.ret) = {} /\ ~BookKeysUnique(new))
       THEN \* except Exception: rollback, raise DatabaseError
            /\ resp' = Reply("get_or_create_book", 0, 0, 500)
            /\ bookCall' = BookCall(d, Null)
            /\ UNCHANGED <<coreTables, likeTables, recTables>>
       ELSE IF Val(existing_book.ret) # {}
       THEN /\ resp' = Reply("get_or_create_book", 0, Val(Val(existing_book.ret)), 200)
            /\ bookCall' = BookCall(d, Val(existing_book.ret))
            /\ UNCHANGED <<coreTables, likeTables, recTables>>
       ELSE /\ nextBookId(books) <= MaxBooks
            /\ books' = new
            /\ resp' = Reply("get_or_create_book", 0, nextBookId(books), 200)
            /\ bookCall' = BookCall(d, Some(nextBookId(books)))
            /\ UNCHANGED <<users, readings, nextReadingId, follows, nextFollowId,
                           activities, now, edgeHistory, procs, likeTables, recTables>>

\* ------------------------------- concurrent requests, one step per round trip
\* Each request runs in its own session and sees what is committed when a
\* statement runs; a step is the stretch of the handler between two awaits on
\* the database that other requests can interleave with.
Idle == [pc |-> "idle"]

\* create_reading: the book and existence SELECTs
CreateBegin(p, u, d) ==
    LET code == create_reading_check(readings, books, u, d)
    IN /\ procs[p] = Idle
       /\ IF code # 0
          THEN /\ resp' = Reply("create_reading", u, d.book_id, code)
               /\ UNCHANGED procs
          ELSE /\ procs' = [procs EXCEPT ![p] = [pc |-> "create_insert", user |-> u, body |-> d]]
               /\ UNCHANGED resp
       /\ UNCHANGED <<users, books, readings, nextReadingId, follows, nextFollowId,
                      activities, now, edgeHistory, otherTables>>

\* create_reading: the INSERTs of the row and its activities, committed
CreateInsert(p) ==
    /\ procs[p].pc = "create_insert"
    /\ LET u == procs[p].user
           d == procs[p].body
           acts == create_activities(u, d)
       IN /\ nextReadingId <= MaxReadings
          /\ Len(activities) + Len(acts) <= MaxActivities
          /\ readings' = readings \cup {NewReading(books, nextReadingId, u, d, now)}
          /\ nextReadingId' = nextReadingId + 1
          /\ activities' = activities \o Logged(acts, now)
          /\ IF TruthyInt(d.rating)
             THEN /\ procs' = [procs EXCEPT ![p] =
                                  [pc |-> "create_stats", user |-> u, body |-> d]]
                  /\ UNCHANGED resp
             ELSE /\ procs' = [procs EXCEPT ![p] = Idle]
                  /\ resp' = Reply("create_reading", u, d.book_id, 200)
    /\ UNCHANGED <<users, books, follows, nextFollowId, now, edgeHistory, otherTables>>

\* update_book_rating: the aggregate SELECT
CreateStats(p) ==
    /\ procs[p].pc = "create_stats"
    /\ procs' = [procs EXCEPT ![p] =
                    [pc |-> "create_write", user |-> procs[p].user, body |-> procs[p].body,
                     stats |-> RatingStats(readings, procs[p].body.book_id)]]
    /\ UNCHANGED <<users, books, readings, nextReadingId, follows, nextFollowId,
                   activities, now, resp, edgeHistory, otherTables>>

\* update_book_rating: the Book UPDATE, committed
CreateWrite(p) ==
    /\ procs[p].pc = "create_write"
    /\ books' = ApplyRatingStats(books, procs[p].body.book_id, procs[p].stats)
    /\ procs' = [procs EXCEPT ![p] = Idle]
    /\ resp' = Reply("create_reading", procs[p].user, procs[p].body.book_id, 200)
    /\ UNCHANGED <<users, readings, nextReadingId, follows, nextFollowId,
                   activities, now, edgeHistory, otherTables>>

\* follow_user: the self, user and existence checks
FollowBegin(p, a, t) ==
    LET code == follow_user_check(follows, users, a, t)
    IN /\ procs[p] = Idle
       /\ IF code # 0
          THEN /\ resp' = Reply("follow_user", a, t, code)
               /\ UNCHANGED procs
          ELSE /\ procs' = [procs EXCEPT ![p] = [pc |-> "follow_insert", user |-> a, target |-> t]]
               /\ UNCHANGED resp
       /\ UNCHANGED <<users, books, readings, nextReadingId, follows, nextFollowId,
                      activities, now, edgeHistory, otherTables>>

\* follow_user: the INSERTs of the edge and its activity, committed
FollowInsert(p) ==
    /\ procs[p].pc = "follow_insert"
    /\ nextFollowId <= MaxFollows
    /\ Len(activities) < MaxActivities
    /\ follows' = follows \cup {NewFollow(nextFollowId, procs[p].user, procs[p].target)}
    /\ nextFollowId' = nextFollowId + 1
    /\ activities' = activities
                      \o Logged(<<Activity(procs[p].user, "followed_user", procs[p].target)>>, now)
    /\ edgeHistory' = [edgeHistory EXCEPT ![<<procs[p].user, procs[p].target>>] = "followed"]
    /\ procs' = [procs EXCEPT ![p] = Idle]
    /\ resp' = Reply("follow_user", procs[p].user, procs[p].target, 200)
    /\ UNCHANGED <<users, books, readings, nextReadingId, now, otherTables>>

\* (mutant) the delete and the recompute share one transaction
rolled_back_Atomic(rds, deleted) == rds \cup deleted

\* session.rollback() after an exception: it undoes what the session has not
\* committed; the rows whose DELETE was committed before (deleted) stay deleted
rolled_back(rds, deleted) == rds

\* update_reading: the SELECT, the ownership check, the patch and the
\* activities, committed
UpdateCommit(p, u, rid, patch) ==
    LET found == {r \in readings : r.id = rid}
    IN /\ procs[p] = Idle
       /\ IF found = {}
          THEN /\ resp' = Reply("update_reading", u, rid, 404)
               /\ UNCHANGED <<readings, activities, procs>>
          ELSE LET reading == CHOOSE r \in found : TRUE
                   new == UpdatedReading(reading, patch, now)
                   acts == update_activities(u, reading, new, patch)
               IN IF not_authorized(reading, u)
                  THEN /\ resp' = Reply("update_reading", u, rid, 403)
                       /\ UNCHANGED <<readings, activities, procs>>
                  ELSE /\ Len(activities) + Len(acts) <= MaxActivities
                       /\ readings' = (readings \ {reading}) \cup {new}
                       /\ activities' = activities \o Logged(acts, now)
                       /\ IF patch.has_rating /\ patch.rating # Null
                          THEN /\ procs' = [procs EXCEPT ![p] =
                                               [pc |-> "recompute_stats",
                                                op |-> "update_reading", user |-> u,
                                                target |-> rid, book_id |-> new.book_id,
                                                deleted |-> {}]]
                               /\ UNCHANGED resp
                          ELSE /\ resp' = Reply("update_reading", u, rid, 200)
                               /\ UNCHANGED procs
       /\ UNCHANGED <<users, books, nextReadingId, follows, nextFollowId, now,
                      edgeHistory, otherTables>>

\* delete_reading: the SELECT, the ownership check and the DELETE, committed
DeleteBegin(p, u, rid) ==
    LET found == {r \in readings : r.id = rid}
    IN /\ procs[p] = Idle
       /\ IF found = {}
          THEN /\ resp' = Reply("delete_reading", u, rid, 404)
               /\ UNCHANGED <<readings, procs>>
          ELSE LET reading == CHOOSE r \in found : TRUE
               IN IF not_authorized(reading, u)
                  THEN /\ resp' = Reply("delete_reading", u, rid, 403)
                       /\ UNCHANGED <<readings, procs>>
                  ELSE IF delete_blocked(likes, comments, rid)
                  THEN /\ resp' = Reply("delete_reading", u, rid, 500)
                       /\ UNCHANGED <<readings, procs>>
                  ELSE /\ readings' = readings \ {reading}
                       /\ procs' = [procs EXCEPT ![p] =
                                       [pc |-> "recompute_stats", op |-> "delete_reading",
                                        user |-> u, target |-> rid,
                                        book_id |-> reading.book_id,
                                        deleted |-> {reading}]]
                       /\ UNCHANGED resp
       /\ UNCHANGED <<users, books, nextReadingId, follows, nextFollowId, activities,
                      now, edgeHistory, otherTables>>

\* update_book_rating after an update or a delete: the aggregate SELECT
RecomputeStats(p) ==
    /\ procs[p].pc = "recompute_stats"
    /\ procs' = [procs EXCEPT ![p] =
                    [pc |-> "recompute_write", op |-> procs[p].op, user |-> procs[p].user,
                     target |-> procs[p].target, book_id |-> procs[p].book_id,
                     deleted |-> procs[p].deleted,
                     stats |-> RatingStats(readings, procs[p].book_id)]]
    /\ UNCHANGED <<users, books, readings, nextReadingId, follows, nextFollowId,
                   activities, now, resp, edgeHistory, otherTables>>

\* update_book_rating after an update or a delete: the Book UPDATE, committed
RecomputeWrite(p) ==
    /\ procs[p].pc = "recompute_write"
    /\ books' = ApplyRatingStats(books, procs[p].book_id, procs[p].stats)
    /\ procs' = [procs EXCEPT ![p] = Idle]
    /\ resp' = Reply(procs[p].op, procs[p].user, procs[p].target, 200)
    /\ UNCHANGED <<users, readings, nextReadingId, follows, nextFollowId,
                   activities, now, edgeHistory, otherTables>>

\* update_book_rating raises (the SELECT or the commit fails): the exception
\* leaves the handler and get_db rolls the session back
RecomputeFail(p) ==
    /\ procs[p].pc \in {"recompute_stats", "recompute_write"}
    /\ readings' = rolled_back(readings, procs[p].deleted)
    /\ procs' = [procs EXCEPT ![p] = Idle]
    /\ resp' = Reply(procs[p].op, procs[p].user, procs[p].target, 500)
    /\ UNCHANGED <<users, books, nextReadingId, follows, nextFollowId,
                   activities, now, edgeHistory, otherTables>>

\* ------------------------------------------------- POST /auth/signup
\* Usernames are numbered.  A signup without a username derives one from the
\* name: the base, then the base followed by 1, 2, ... until one is free.
RECURSIVE free_username(_, _, _)
free_username(usrs, base, counter) ==
    LET username == IF counter = 0 THEN base ELSE base * 10 + counter
    IN IF \E v \in DOMAIN usrs : usrs[v].username = Some(username)
       THEN free_username(usrs, base, counter + 1)
       ELSE username

\* signup: the username SELECT (or the loop of SELECTs); every signup comes
\* with an e-mail address of its own
SignupBegin(p, d) ==
    LET taken == {v \in DOMAIN users : users[v].username = d.username}
    IN /\ procs[p] = Idle
       /\ IF TruthyInt(d.username) /\ taken # {}
          THEN /\ resp' = Reply("signup", 0, Val(d.username), 400)
               /\ UNCHANGED procs
          ELSE /\ procs' = [procs EXCEPT ![p] =
                              [pc |-> "signup_insert", user |-> 0,
                               username |-> IF TruthyInt(d.username) THEN Val(d.username)
                                            ELSE free_username(users, d.name, 0)]]
               /\ UNCHANGED resp
       /\ UNCHANGED <<users, books, readings, nextReadingId, follows, nextFollowId,
                      activities, now, edgeHistory, otherTables>>

\* signup: the INSERT of the User row, committed
SignupInsert(p) ==
    /\ procs[p].pc = "signup_insert"
    /\ LET id == Cardinality(DOMAIN users) + 1
           new == users @@ (id :> [username |-> Some(procs[p].username),
                                   is_private |-> Some(FALSE)])
       IN IF ~UsernameUnique(new)                      \* IntegrityError
          THEN /\ resp' = Reply("signup", 0, procs[p].username, 500)
               /\ UNCHANGED users
          ELSE /\ id <= MaxUsers
               /\ users' = new
               /\ resp' = Reply("signup", id, procs[p].username, 200)
    /\ procs' = [procs EXCEPT ![p] = Idle]
    /\ UNCHANGED <<books, readings, nextReadingId, follows, nextFollowId,
                   activities, now, edgeHistory, otherTables>>

\* update_my_profile: the "username is taken" SELECT
ProfileBegin(p, u, body) ==
    LET code == update_my_profile_check(users, u, body)
    IN /\ procs[p] = Idle
       /\ IF code # 0
          THEN /\ resp' = Reply("update_my_profile", u, Val(body.username), code)
               /\ UNCHANGED procs
          ELSE /\ procs' = [procs EXCEPT ![p] =
                              [pc |-> "profile_commit", user |-> u, body |-> body,
                               username |-> IF body.has_username /\ body.username # Null
                                            THEN Val(body.username) ELSE 0]]
               /\ UNCHANGED resp
       /\ UNCHANGED <<users, books, readings, nextReadingId, follows, nextFollowId,
                      activities, now, edgeHistory, otherTables>>

\* update_my_profile: the setattr loop and the commit
ProfileCommit(p) ==
    /\ procs[p].pc = "profile_commit"
    /\ LET u == procs[p].user
           new == [users EXCEPT ![u] = UpdatedUser(users[u], procs[p].body)]
       IN IF ~UsernameUnique(new)                      \* IntegrityError
          THEN /\ resp' = Reply("update_my_profile", u, procs[p].username, 500)
               /\ UNCHANGED users
          ELSE /\ users' = new
               /\ resp' = Reply("update_my_profile", u, procs[p].username, 200)
    /\ procs' = [procs EXCEPT ![p] = Idle]
    /\ UNCHANGED <<books, readings, nextReadingId, follows, nextFollowId,
                   activities, now, edgeHistory, otherTables>>

\* ------------------------------------------------------------ the clock
Tick ==
    /\ now < MaxTime
    /\ now' = now + 1
    /\ UNCHANGED <<users, books, readings, nextReadingId, follows, nextFollowId,
                   activities, resp, edgeHistory, procs, otherTables>>

\* ------------------------------------------------------- initial state
\* a seeded catalog and registered users; empty readings, follows and log
InitTables ==
    /\ users = [u \in UserIds |-> [username |-> Some(u), is_private |-> Some(FALSE)]]
    /\ books = [b \in BookIds |->
                   [average_rating |-> 0, total_ratings |-> 0,
                    total_pages |-> IF b = 1 THEN Some(300) ELSE Null,
                    title |-> IF b = 1 THEN "Dune" ELSE "Educated",
                    author |-> IF b = 1 THEN "Frank Herbert" ELSE "Tara Westover",
                    isbn |-> Some(IF b = 1 THEN "isbn-1" ELSE "isbn-2"),
                    open_library_id |-> Some(IF b = 1 THEN "ol-1" ELSE "ol-2")]]
    /\ readings = {}
    /\ nextReadingId = 1
    /\ follows = {}
    /\ nextFollowId = 1
    /\ activities = <<>>
    /\ now = 0
    /\ resp = Reply("none", 0, 0, 0)
    /\ edgeHistory = [pair \in UserIds \X UserIds |-> "none"]
    /\ procs = [p \in 1..NumProcs |-> [pc |-> "idle"]]
    /\ likes = {}
    /\ nextLikeId = 1
    /\ recommendations = {}
    /\ nextRecId = 1
    /\ comments = {}
    /\ nextCommentId = 1
    /\ bookCall = NoBookCall

Init == InitTables /\ recCall = NoCall

\* ------------------------------------------------------ request bodies
Unset(default) == <<FALSE, default>>
Set(v) == <<TRUE, v>>

\* ReadingCreate bodies
CreateBodies(B, S, R, V, P) ==
    [book_id : B, status : S, rating : R, review : V, is_review_public : P,
     progress_pages : {Some(0)}, total_pages : {Null}]

\* ReadingUpdate bodies: every field unset or set (a set field may be null)
UpdateBodies(S, R, V, P) ==
    {[has_status |-> s[1], status |-> s[2], has_rating |-> r[1], rating |-> r[2],
      has_review |-> v[1], review |-> v[2], has_public |-> p[1], is_review_public |-> p[2],
      has_progress |-> FALSE, progress_pages |-> Null,
      has_total |-> FALSE, total_pages |-> Null] : s \in S, r \in R, v \in V, p \in P}

\* ---------------------- ratings and the Book aggregate, one request at a time
RatingCreates ==
    CreateBodies(AnyBookId, {WANT_TO_READ}, {Null, Some(4), Some(5)}, {Null}, {Some(TRUE)})
RatingUpdates ==
    UpdateBodies({Unset("unset")}, {Set(Null), Set(Some(4)), Set(Some(5))},
                 {Unset(Null)}, {Unset(Null)})

NextRating ==
    \/ \E u \in UserIds, d \in RatingCreates : CreateReading(u, d)
    \/ \E u \in UserIds, rid \in AnyReadingId, p \in RatingUpdates : UpdateReading(u, rid, p)
    \/ \E u \in UserIds, rid \in AnyReadingId : DeleteReading(u, rid)

SpecRating == Init /\ [][NextRating]_vars

\* ------------------------- status and timestamps, one request at a time
\* One user's Readings of one book (created, deleted and created again); the
\* other users only attempt updates and deletes.
LifecycleOwners == {1}
LifecycleCreates ==
    CreateBodies({1, NumBooks + 1}, ReadingStatus, {Null}, {Null}, {Some(TRUE)})
LifecycleUpdates ==
    UpdateBodies({Unset("unset")} \cup {Set(st) : st \in ReadingStatus},
                 {Unset(Null)}, {Unset(Null)}, {Unset(Null)})

NextLifecycle ==
    \/ \E u \in LifecycleOwners, d \in LifecycleCreates : CreateReading(u, d)
    \/ \E u \in UserIds, rid \in AnyReadingId, p \in LifecycleUpdates : UpdateReading(u, rid, p)
    \/ \E u \in UserIds, rid \in AnyReadingId : DeleteReading(u, rid)
    \/ Tick

SpecLifecycle == Init /\ [][NextLifecycle]_vars

\* ------------------- repeated creates for the same pair, one request at a time
\* Finished Readings of one book, rated or not, by every user.
DuplicateCreates ==
    CreateBodies({1, NumBooks + 1}, {FINISHED}, {Null, Some(5)}, {Null},
                 {Some(TRUE)})

NextDuplicate ==
    \/ \E u \in UserIds, d \in DuplicateCreates : CreateReading(u, d)
    \/ \E u \in UserIds, rid \in AnyReadingId : DeleteReading(u, rid)

SpecDuplicate == Init /\ [][NextDuplicate]_vars

\* ----------------------------------- the follow graph, one request at a time
NextFollow ==
    \/ \E a \in UserIds, t \in AnyUserId : FollowUser(a, t)
    \/ \E a \in UserIds, t \in AnyUserId : UnfollowUser(a, t)

SpecFollow == Init /\ [][NextFollow]_vars

\* --------------------------------------- concurrent create_reading requests
ConcurrentCreates ==
    CreateBodies({1, NumBooks + 1}, {WANT_TO_READ}, {Null, Some(5)}, {Null}, {Some(TRUE)})

NextConcurrentCreate ==
    \/ \E p \in 1..NumProcs, u \in UserIds, d \in ConcurrentCreates : CreateBegin(p, u, d)
    \/ \E p \in 1..NumProcs : CreateInsert(p)
    \/ \E p \in 1..NumProcs : CreateStats(p)
    \/ \E p \in 1..NumProcs : CreateWrite(p)

SpecConcurrentCreate == Init /\ [][NextConcurrentCreate]_vars

\* ------------------------------------------ concurrent follow_user requests
NextConcurrentFollow ==
    \/ \E p \in 1..NumProcs, a \in UserIds, t \in AnyUserId : FollowBegin(p, a, t)
    \/ \E p \in 1..NumProcs : FollowInsert(p)
    \/ \E a \in UserIds, t \in AnyUserId : UnfollowUser(a, t)

SpecConcurrentFollow == Init /\ [][NextConcurrentFollow]_vars

\* --------------------- reviews, privacy and follows, one request at a time
ProfileBodies(N, P) ==
    {[has_username |-> n[1], username |-> n[2], has_private |-> q[1], is_private |-> q[2]] :
        n \in N, q \in P}

ViewCreates ==
    CreateBodies({1}, {WANT_TO_READ}, {Null}, {Null, Some("r")}, {Some(TRUE), Some(FALSE)})
ViewUpdates ==
    UpdateBodies({Unset("unset")}, {Unset(Null)}, {Unset(Null)},
                 {Set(Some(TRUE)), Set(Some(FALSE))})
ViewProfiles ==
    ProfileBodies({Unset(Null)}, {Set(Some(TRUE)), Set(Some(FALSE))})

NextView ==
    \/ \E u \in UserIds, d \in ViewCreates : CreateReading(u, d)
    \/ \E u \in UserIds, rid \in 1..MaxReadings, p \in ViewUpdates : UpdateReading(u, rid, p)
    \/ \E a \in UserIds, t \in UserIds : FollowUser(a, t)
    \/ \E u \in UserIds, body \in ViewProfiles : UpdateMyProfile(u, body)

SpecView == Init /\ [][NextView]_vars

\* ------------------- the activity log of updates, one request at a time
\* One user's Reading, created unfinished, rated or not; patches of status and
\* rating by every user.
ActivityCreates ==
    CreateBodies({1}, {WANT_TO_READ}, {Null, Some(4)}, {Null}, {Some(TRUE)})
ActivityUpdates ==
    UpdateBodies({Unset("unset"), Set(WANT_TO_READ), Set(FINISHED)},
                 {Unset(Null), Set(Null), Set(Some(4)), Set(Some(5))},
                 {Unset(Null)}, {Unset(Null)})

NextActivity ==
    \/ \E u \in LifecycleOwners, d \in ActivityCreates : CreateReading(u, d)
    \/ \E u \in LifecycleOwners, rid \in 1..MaxReadings, p \in ActivityUpdates :
            UpdateReading(u, rid, p)
    \/ Tick

SpecActivity == Init /\ [][NextActivity]_vars

\* --------------------- likes and the social feed, one request at a time
\* One user's reviewed Reading, public or private; every user follows that
\* user, likes and unlikes.
LikeCreates ==
    CreateBodies({1}, {WANT_TO_READ}, {Null}, {Some("r")}, {Some(TRUE), Some(FALSE)})

NextLikes ==
    \/ \E u \in LifecycleOwners, d \in LikeCreates : CreateReading(u, d)
    \/ \E a \in UserIds, t \in LifecycleOwners : FollowUser(a, t)
    \/ \E u \in UserIds, rid \in {1, 2} : LikeReview(u, rid)
    \/ \E u \in UserIds, rid \in {1, 2} : UnlikeReview(u, rid)

SpecLikes == Init /\ [][NextLikes]_vars

\* ---------------------------- get_ai_recommendations over its inputs
SeqsUpTo(S, n) == UNION {[1..k -> S] : k \in 0..n}

\* the books of a library: two editions of one title, and the fallback books
LibraryBooks ==
    {[title |-> "dune", author |-> "Frank Herbert"],
     [title |-> "Educated", author |-> "tara westover"],
     [title |-> "The Seven Husbands of Evelyn Hugo", author |-> "Taylor Jenkins Reid"],
     [title |-> "The Midnight Library", author |-> "Matt Haig"]}

\* the items of a JSON reply
ReplyItems ==
    {Rec(" Dune ", "Frank Herbert", "r", "0.85"),
     Rec("Dune", "Brian Herbert", "r", Missing),
     Rec("Educated", "Tara Westover", "r", "0.9"),
     Rec("Dune", Missing, "r", "0.85"),
     Rec(Number, "Frank Herbert", "r", "0.85"),
     Rec("Dune", "Frank Herbert", "r", "high")}

\* the lines of a text reply
ReplyLines ==
    {[tag |-> "Title", value |-> "Dune"],
     [tag |-> "Title", value |-> "Educated"],
     [tag |-> "Author", value |-> "Frank Herbert"],
     [tag |-> "Confidence", value |-> "high"],
     [tag |-> "other", value |-> ""]}

\* the outcomes of the HTTP call; a reply that parses as JSON is one line
\* that the line scanner passes over
Replies ==
    {[kind |-> k, json |-> "invalid", items |-> <<>>, lines |-> <<>>] :
        k \in {"network_error", "bad_status", "bad_body", "no_choices", "null_content"}}
    \cup {[kind |-> "content", json |-> "invalid", items |-> <<>>, lines |-> l] :
            l \in SeqsUpTo(ReplyLines, MaxLines)}
    \cup {[kind |-> "content", json |-> "not_object", items |-> <<>>, lines |-> <<>>]}
    \cup {[kind |-> "content", json |-> "object", items |-> items, lines |-> <<>>] :
            items \in SeqsUpTo(ReplyItems, MaxItems)}

InitRecommend ==
    /\ InitTables
    /\ recCall \in {Call(has_key, history_empty, user_books, n, reply) :
                       has_key \in BOOLEAN, history_empty \in BOOLEAN,
                       user_books \in SUBSET LibraryBooks, n \in {1, 8}, reply \in Replies}

NextRecommend == GetAiRecommendations

SpecRecommend == InitRecommend /\ [][NextRecommend]_vars

\* ----------------- requests on another user's Reading, one request at a time
\* One user's rated Readings (created, deleted and created again); every user
\* patches and deletes them.
OwnershipCreates ==
    CreateBodies({1}, {WANT_TO_READ}, {Some(4)}, {Null}, {Some(TRUE)})
OwnershipUpdates ==
    UpdateBodies({Unset("unset"), Set(FINISHED)}, {Unset(Null), Set(Null), Set(Some(5))},
                 {Unset(Null)}, {Unset(Null)})

NextOwnership ==
    \/ \E u \in LifecycleOwners, d \in OwnershipCreates : CreateReading(u, d)
    \/ \E u \in UserIds, rid \in AnyReadingId, p \in OwnershipUpdates : UpdateReading(u, rid, p)
    \/ \E u \in UserIds, rid \in AnyReadingId : DeleteReading(u, rid)

SpecOwnership == Init /\ [][NextOwnership]_vars

\* ------------------------------- the book catalog, one request at a time
\* BookCreate bodies: the seeded book's keys, new keys and absent keys
BookBodies ==
    [title : {"Dune", "Educated"}, author : {"Frank Herbert", "Tara Westover"},
     isbn : {Null, Some("isbn-1"), Some("isbn-8")},
     open_library_id : {Null, Some("ol-1"), Some("ol-8")},
     total_pages : {Null}]

NextCatalog == \E d \in BookBodies : AddBook(d)

SpecCatalog == Init /\ [][NextCatalog]_vars

\* ------------------------- regenerated recommendations, one request at a time
\* Libraries of the seeded book; the model answers with one JSON item, or the
\* call fails and the fallback list is used; Open Library answers each search
\* with nothing, a book by title and author, or a book whose ISBN is taken.
GenerateCreates ==
    CreateBodies({1}, {WANT_TO_READ}, {Null}, {Null}, {Some(TRUE)})

GenerateReplies ==
    {[kind |-> "network_error", json |-> "invalid", items |-> <<>>, lines |-> <<>>],
     [kind |-> "content", json |-> "object",
      items |-> <<Rec("Educated", "Tara Westover", "r", "0.9")>>, lines |-> <<>>]}

SearchResults ==
    {Null,
     Some([title |-> "Educated", author |-> "Tara Westover",
           isbn |-> Some("isbn-2"), open_library_key |-> Some("ol-2")]),
     Some([title |-> "The Midnight Library", author |-> "Matt Haig",
           isbn |-> Some("isbn-1"), open_library_key |-> Null])}

\* the answers to the searches of one request: one for the first item and
\* one for the items after it
Searches ==
    {[i \in 1..Len(get_fallback_recommendations) |-> IF i = 1 THEN first ELSE rest] :
        first \in SearchResults, rest \in SearchResults}

\* the users who ask for recommendations: one with a library, one without
Requesters == {1, 2}

NextGenerate ==
    \/ \E u \in LifecycleOwners, d \in GenerateCreates : CreateReading(u, d)
    \/ \E u \in Requesters, reply \in GenerateReplies, search \in Searches :
            GenerateRecommendations(u, TRUE, reply, search)
    \/ \E u \in Requesters, rid \in 1..MaxRecs : DismissRecommendation(u, rid)

SpecGenerate == Init /\ [][NextGenerate]_vars

\* --------------------- ratings of any integer value, one request at a time
\* ReadingCreate.rating and ReadingUpdate.rating are Optional[int]
RangeRatings == {Null, Some(0), Some(5), Some(6)}
RangeCreates ==
    CreateBodies({1}, {WANT_TO_READ}, RangeRatings, {Null}, {Some(TRUE)})
RangeUpdates ==
    UpdateBodies({Unset("unset")}, {Set(r) : r \in RangeRatings}, {Unset(Null)},
                 {Unset(Null)})

NextRange ==
    \/ \E u \in UserIds, d \in RangeCreates : CreateReading(u, d)
    \/ \E u \in UserIds, rid \in 1..MaxReadings, p \in RangeUpdates : UpdateReading(u, rid, p)

SpecRange == Init /\ [][NextRange]_vars

\* ------------------- concurrent signup and profile-update requests
\* SignupRequest bodies: a username (held, free) or none and a name to derive it
SignupBodies == [username : {Null, Some(1), Some(7)}, name : {1}]

UsernameBodies ==
    ProfileBodies({Set(Some(1)), Set(Some(2)), Set(Some(7))}, {Unset(Null)})

NextConcurrentUsername ==
    \/ \E p \in 1..NumProcs, d \in SignupBodies : SignupBegin(p, d)
    \/ \E p \in 1..NumProcs : SignupInsert(p)
    \/ \E p \in 1..NumProcs, u \in UserIds, body \in UsernameBodies : ProfileBegin(p, u, body)
    \/ \E p \in 1..NumProcs : ProfileCommit(p)

SpecConcurrentUsername == Init /\ [][NextConcurrentUsername]_vars

\* ------------------- the activity log of creates, one request at a time
\* Readings of one book in every status, rated or not, reviewed or not,
\* created, deleted and created again by every user.
CreateActivityBodies ==
    CreateBodies({1}, ReadingStatus, {Null, Some(4)}, {Null, Some("r")}, {Some(TRUE)})

NextCreateActivity ==
    \/ \E u \in UserIds, d \in CreateActivityBodies : CreateReading(u, d)
    \/ \E u \in UserIds, rid \in AnyReadingId : DeleteReading(u, rid)

SpecCreateActivity == Init /\ [][NextCreateActivity]_vars

\* ------------- likes, comments and the reviewed Reading, one request at a time
\* One user's reviewed Readings, public or private (created, deleted and
\* created again); the owner hides, shows or clears the review; every user
\* likes, comments and attempts the delete.
InteractionCreates ==
    CreateBodies({1}, {WANT_TO_READ}, {Null}, {Some("r")}, {Some(TRUE), Some(FALSE)})
InteractionUpdates ==
    UpdateBodies({Unset("unset")}, {Unset(Null)}, {Unset(Null), Set(Null)},
                 {Unset(Null), Set(Some(TRUE)), Set(Some(FALSE))})

NextInteraction ==
    \/ \E u \in LifecycleOwners, d \in InteractionCreates : CreateReading(u, d)
    \/ \E u \in LifecycleOwners, rid \in {1, 2}, p \in InteractionUpdates :
            UpdateReading(u, rid, p)
    \/ \E u \in UserIds, rid \in {1, 2} : LikeReview(u, rid)
    \/ \E u \in UserIds, rid \in {1, 2} : UnlikeReview(u, rid)
    \/ \E u \in UserIds, rid \in {1, 2} : AddReviewComment(u, rid)
    \/ \E u \in UserIds, rid \in {1, 2} : DeleteReading(u, rid)

SpecInteraction == Init /\ [][NextInteraction]_vars

\* ------------- a delete whose recompute of the aggregate fails
\* One user's rated Readings of one book (created, deleted and created
\* again); every user attempts the delete, which runs one round trip at a
\* time, and update_book_rating may raise at either of its round trips.
FailureCreates ==
    CreateBodies({1}, {WANT_TO_READ}, {Some(4), Some(5)}, {Null}, {Some(TRUE)})

NextDeleteFailure ==
    \/ \E u \in LifecycleOwners, d \in FailureCreates : CreateReading(u, d)
    \/ \E p \in 1..NumProcs, u \in UserIds, rid \in 1..MaxReadings : DeleteBegin(p, u, rid)
    \/ \E p \in 1..NumProcs : RecomputeStats(p)
    \/ \E p \in 1..NumProcs : RecomputeWrite(p)
    \/ \E p \in 1..NumProcs : RecomputeFail(p)

SpecDeleteFailure == Init /\ [][NextDeleteFailure]_vars

\* ------------- concurrent creates, re-ratings and deletes of one Book's Readings
\* One user's Readings of one book, rated 4 at the create and re-rated 5; the
\* requests of that user interleave at their database round trips.
RaceCreates ==
    CreateBodies({1}, {WANT_TO_READ}, {Some(4)}, {Null}, {Some(TRUE)})
RaceUpdates ==
    UpdateBodies({Unset("unset")}, {Set(Some(5))}, {Unset(Null)}, {Unset(Null)})

NextConcurrentRating ==
    \/ \E p \in 1..NumProcs, u \in LifecycleOwners, d \in RaceCreates : CreateBegin(p, u, d)
    \/ \E p \in 1..NumProcs : CreateInsert(p)
    \/ \E p \in 1..NumProcs : CreateStats(p)
    \/ \E p \in 1..NumProcs : CreateWrite(p)
    \/ \E p \in 1..NumProcs, u \in LifecycleOwners, rid \in 1..MaxReadings, patch \in RaceUpdates :
            UpdateCommit(p, u, rid, patch)
    \/ \E p \in 1..NumProcs, u \in LifecycleOwners, rid \in 1..MaxReadings : DeleteBegin(p, u, rid)
    \/ \E p \in 1..NumProcs : RecomputeStats(p)
    \/ \E p \in 1..NumProcs : RecomputeWrite(p)

SpecConcurrentRating == Init /\ [][NextConcurrentRating]_vars

\* -------------- the two lists of the social feed, one request at a time
\* One user's finished Reading, reviewed or not, public or not; every user
\* follows and unfollows that user; the clock advances.
FeedCreates ==
    CreateBodies({1}, {FINISHED}, {Null}, {Null, Some("r")}, {Some(TRUE), Some(FALSE)})
FeedLimits == 0..MaxLimit

NextFeed ==
    \/ \E u \in LifecycleOwners, d \in FeedCreates : CreateReading(u, d)
    \/ \E a \in UserIds, t \in LifecycleOwners : FollowUser(a, t)
    \/ \E a \in UserIds, t \in LifecycleOwners : UnfollowUser(a, t)
    \/ Tick

SpecFeed == Init /\ [][NextFeed]_vars

\* ------------------- get_or_create_book over a growing catalog
\* BookCreate bodies: the seeded book's keys, a second set of keys and no
\* keys; titles and authors that match the seeded book in part, or another
\* book.  POST /books/ adds rows to the same table.
CanonicalBodies ==
    {[title |-> ta[1], author |-> ta[2], isbn |-> i, open_library_id |-> o,
      total_pages |-> Null] :
        ta \in {<<"dune", "Herbert">>, <<"Educated", "Tara Westover">>,
                <<"The Midnight Library", "Matt Haig">>},
        i \in {Null, Some("isbn-1"), Some("isbn-8")},
        o \in {Null, Some("ol-1"), Some("ol-8")}}

NextCanonical ==
    \/ \E d \in CanonicalBodies : GetOrCreateBook(d)
    \/ \E d \in CanonicalBodies : AddBook(d)

SpecCanonical == Init /\ [][NextCanonical]_vars

\* ======================================================================
\* Claims
\* ======================================================================
RatedReadings(rds, b) == {r \in rds : r.book_id = b /\ r.rating # Null}

\* the aggregate a Book should carry for the rows rds: <<average, count>>
AggregateOf(rds, b) ==
    LET rated == RatedReadings(rds, b)
        n == Cardinality(rated)
    IN <<IF n = 0 THEN 0 ELSE (200 * SumRatings(rated) + n) \div (2 * n), n>>

\* C1: after every completed Reading create, update or delete, every Book with
\* at least one rated Reading carries the average (2 decimals) and the count of
\* the non-null ratings of its Readings.
C1_AggregateMatchesRatings ==
    \A b \in DOMAIN books :
        RatedReadings(readings, b) # {} =>
            <<books[b].average_rating, books[b].total_ratings>> = AggregateOf(readings, b)

\* C2: a successful delete_reading leaves the Book with the aggregate of its
\* remaining Readings; with no rating left its total_ratings is 0.
C2_DeleteRecomputesAggregate ==
    [][(resp'.op = "delete_reading" /\ resp'.code = 200) =>
          \A r \in readings :
              (r.id = resp'.target /\ r \notin readings') =>
                  /\ books'[r.book_id].total_ratings = AggregateOf(readings', r.book_id)[2]
                  /\ (RatedReadings(readings', r.book_id) # {} =>
                        books'[r.book_id].average_rating
                            = AggregateOf(readings', r.book_id)[1])]_vars

\* C3: every Reading whose status is finished has a non-null finished_at.
C3_FinishedHasFinishedAt ==
    \A r \in readings : r.status = FINISHED => r.finished_at # Null

\* a Reading finished by an update after it was started at an earlier time
C3_Witness ==
    /\ resp.op = "update_reading" /\ resp.code = 200
    /\ \E r \in readings :
          /\ r.id = resp.target /\ r.status = FINISHED
          /\ r.started_at # Null /\ r.finished_at # Null
          /\ Val(r.started_at) < Val(r.finished_at)

\* C4: a Reading that is currently_reading or finished has a started_at; a
\* create or update that brings a Reading without started_at into one of these
\* statuses stamps it with the current time; a non-null started_at is never
\* changed by a later request.
C4_StartedAt ==
    [][/\ \A r \in readings' :
              r.status \in {CURRENTLY_READING, FINISHED} => r.started_at # Null
       /\ \A o \in readings, r \in readings' :
              (/\ o.id = r.id /\ o.started_at = Null
               /\ r.status \in {CURRENTLY_READING, FINISHED})
                  => r.started_at = Some(now)
       /\ \A r \in readings' :
              (/\ r.status \in {CURRENTLY_READING, FINISHED}
               /\ r.id \notin {o.id : o \in readings})
                  => r.started_at = Some(now)
       /\ \A o \in readings, r \in readings' :
              (o.id = r.id /\ o.started_at # Null) => r.started_at = o.started_at
      ]_vars

\* a Reading started at one time and finished by an update at a later time
C4_Witness ==
    /\ resp.op = "update_reading" /\ resp.code = 200
    /\ \E r \in readings :
          /\ r.id = resp.target /\ r.status = FINISHED
          /\ r.started_at = Some(0) /\ r.finished_at = Some(1)

\* C5: a create_reading for a (user, book) pair that already has a Reading is
\* answered 400 and changes no Reading, no Book aggregate and no activity.
C5_DuplicateCreateRejected ==
    [][(/\ resp' # resp /\ resp'.op = "create_reading"
        /\ \E r \in readings : r.user_id = resp'.user /\ r.book_id = resp'.target)
          => /\ resp'.code = 400
             /\ readings' = readings /\ books' = books /\ activities' = activities
      ]_vars

\* a rejected duplicate create while the first Reading, rated, is in place
C5_Witness ==
    /\ resp.op = "create_reading" /\ resp.code = 400
    /\ \E r \in readings :
          r.user_id = resp.user /\ r.book_id = resp.target /\ r.rating # Null
    /\ Len(activities) > 0

\* C7: a follow request naming the caller, or an edge that already exists, is
\* answered 400 and adds no edge and no activity.
C7_BadFollowRejected ==
    [][(/\ resp' # resp /\ resp'.op = "follow_user"
        /\ \/ resp'.target = resp'.user
           \/ \E f \in follows :
                  f.follower_id = resp'.user /\ f.following_id = resp'.target)
          => /\ resp'.code = 400
             /\ follows' = follows /\ activities' = activities
      ]_vars

\* a rejected duplicate follow, with the edge and its activity in place
C7_Witness ==
    /\ resp.op = "follow_user" /\ resp.code = 400 /\ resp.target # resp.user
    /\ \E f \in follows : f.follower_id = resp.user /\ f.following_id = resp.target
    /\ Len(activities) > 0

Lists(profiles, uid) == \E pr \in profiles : pr.id = uid

\* C8: B is in A's following list iff A is in B's followers list, and both
\* hold exactly when A's last successful follow of B was not followed by a
\* successful unfollow of B by A.
C8_FollowListsAgree ==
    \A a \in UserIds, b \in UserIds :
        /\ Lists(get_user_following(follows, a), b) <=> Lists(get_user_followers(follows, b), a)
        /\ Lists(get_user_following(follows, a), b) <=> edgeHistory[<<a, b>>] = "followed"

\* one pair unfollowed while the opposite pair is followed
C8_Witness ==
    \E a \in UserIds, b \in UserIds :
        /\ edgeHistory[<<a, b>>] = "unfollowed"
        /\ edgeHistory[<<b, a>>] = "followed"
        /\ Lists(get_user_followers(follows, a), b)
        /\ ~Lists(get_user_followers(follows, b), a)

\* C6: there is at most one Reading row per (user, book) pair, also when
\* create_reading requests for the same pair run concurrently.
C6_OneReadingPerPair ==
    \A r1 \in readings, r2 \in readings :
        (r1.user_id = r2.user_id /\ r1.book_id = r2.book_id) => r1.id = r2.id

\* C9: no UserFollow row has follower_id = following_id and no two rows share
\* a (follower_id, following_id) pair, also when follow requests run concurrently.
C9_FollowEdgesUnique ==
    /\ \A f \in follows : f.follower_id # f.following_id
    /\ \A f1 \in follows, f2 \in follows :
          (f1.follower_id = f2.follower_id /\ f1.following_id = f2.following_id)
              => f1.id = f2.id

\* what the five endpoints can return, for every viewer and every target
ReadingResponses(viewer) ==
    UNION ({get_reading(readings, viewer, rid) : rid \in AnyReadingId}
           \cup {get_user_readings(readings, users, viewer, uid) : uid \in AnyUserId}
           \cup {get_user_library(readings, users, follows, viewer, uid) : uid \in AnyUserId}
           \cup {get_user_reviews(readings, users, viewer, uid) : uid \in AnyUserId}
           \cup {get_social_feed_reviews(readings, follows, viewer)})

\* C10: no endpoint that returns Readings hands a review text to a viewer who
\* is not the owner unless the Reading's is_review_public is true and its
\* review is non-null, whether or not the viewer follows the owner.
C10_PrivateReviewHidden ==
    \A viewer \in UserIds :
        \A item \in ReadingResponses(viewer) :
            (item.user_id # viewer /\ item.review # Null)
                => item.is_review_public = Some(TRUE)

\* the activities a step appends, and how many of them have a given type
Appended == SubSeq(activities', Len(activities) + 1, Len(activities'))
CountType(log, type) == Cardinality({i \in DOMAIN log : log[i].activity_type = type})

\* C11: a successful update_reading appends one finished_book activity when
\* the status goes from a non-finished status to finished and none otherwise,
\* and one rated_book activity when the rating after the update is non-null
\* and differs from the rating before it and none otherwise; the log before
\* the request is kept.
C11_UpdateActivities ==
    [][(resp'.op = "update_reading" /\ resp'.code = 200 /\ now' = now) =>
          \A o \in readings, r \in readings' :
              o.id = resp'.target /\ r.id = resp'.target =>
                  /\ Len(activities') >= Len(activities)
                  /\ SubSeq(activities', 1, Len(activities)) = activities
                  /\ CountType(Appended, "finished_book")
                        = IF o.status # FINISHED /\ r.status = FINISHED THEN 1 ELSE 0
                  /\ CountType(Appended, "rated_book")
                        = IF r.rating # Null /\ r.rating # o.rating THEN 1 ELSE 0
      ]_vars

\* an unrated want_to_read Reading finished and rated 5 by one update: the log
\* holds the finished_book and rated_book pair of that update and nothing else
C11_Witness ==
    /\ resp.op = "update_reading" /\ resp.code = 200
    /\ \E r \in readings :
          /\ r.id = resp.target /\ r.status = FINISHED /\ r.rating = Some(5)
          /\ r.started_at = r.finished_at /\ r.finished_at = r.updated_at
          /\ activities = Logged(<<Activity(r.user_id, "finished_book", r.book_id),
                                   Activity(r.user_id, "rated_book", r.book_id)>>,
                                 Val(r.updated_at))

\* C12: every review a viewer's feed returns carries like_count = the number
\* of ReviewLike rows on that Reading and is_liked = the viewer has a
\* ReviewLike row on it; a successful like by the viewer of a review in the
\* feed raises its like_count by one in the next fetch and makes is_liked true.
C12_FeedLikeCounts ==
    /\ [](\A viewer \in UserIds :
            \A item \in get_social_feed(readings, follows, likes, viewer) :
                /\ item.like_count = Cardinality({l \in likes : l.reading_id = item.id})
                /\ item.is_liked <=> \E l \in likes :
                                         l.reading_id = item.id /\ l.user_id = viewer)
    /\ [][(resp' # resp /\ resp'.op = "like_review" /\ resp'.code = 200) =>
            \A item \in get_social_feed(readings, follows, likes, resp'.user) :
                item.id = resp'.target =>
                    /\ ~item.is_liked
                    /\ \E next \in get_social_feed(readings', follows', likes', resp'.user) :
                          /\ next.id = item.id
                          /\ next.like_count = item.like_count + 1
                          /\ next.is_liked
         ]_vars

\* a follower's feed lists the followed user's review, liked by both of them
C12_Witness ==
    \E viewer \in UserIds :
        \E item \in get_social_feed(readings, follows, likes, viewer) :
            /\ item.user_id # viewer
            /\ item.like_count = 2 /\ item.is_liked
            /\ resp.op = "like_review" /\ resp.code = 200 /\ resp.user = viewer

\* the lowercased (title, author) pairs of a library and of a returned item
LibraryPairs(user_books) == {<<LowerCase(b.title), LowerCase(b.author)>> : b \in user_books}
ItemPair(item) == <<LowerCase(item.title), LowerCase(item.author)>>

\* C13: no item get_ai_recommendations returns has the lowercased (title,
\* author) pair of a book of the user's library, whichever path produced it.
C13_NoOwnedBookReturned ==
    (recCall.called /\ recCall.result.ret # Null) =>
        \A i \in DOMAIN Val(recCall.result.ret) :
            ItemPair(Val(recCall.result.ret)[i]) \notin LibraryPairs(recCall.user_books)

\* C14: without an API key get_ai_recommendations returns the fallback list
\* less the items whose lowercased (title, author) pair is in the library.
C14_NoKeyFilteredFallback ==
    (recCall.called /\ ~recCall.has_key) =>
        recCall.result.ret =
            Some(SelectSeq(get_fallback_recommendations,
                           LAMBDA r : ItemPair(r) \notin LibraryPairs(recCall.user_books)))

\* C15: whatever the outcome of the external call, get_ai_recommendations
\* returns a list and raises nothing.
C15_AlwaysReturnsList ==
    recCall.called => (recCall.result.exc = Null /\ recCall.result.ret # Null)

\* a JSON reply with a wrongly typed field, answered with the fallback list
C15_Witness ==
    /\ recCall.called /\ recCall.has_key /\ ~recCall.history_empty
    /\ recCall.reply.kind = "content"
    /\ recCall.reply.json = "object"
    /\ \E i \in DOMAIN recCall.reply.items : ItemRaises(recCall.reply.items[i])
    /\ recCall.result.ret = Some(get_fallback_recommendations)

\* C16: an update_reading or delete_reading by a user who does not own the
\* Reading is answered 403 and leaves every Reading, every Book aggregate and
\* the activity log as they were.
C16_NonOwnerRejected ==
    [][(/\ resp'.op \in {"update_reading", "delete_reading"}
        /\ \E r \in readings : r.id = resp'.target /\ r.user_id # resp'.user)
          => /\ resp'.code = 403
             /\ readings' = readings /\ books' = books /\ activities' = activities
      ]_vars

\* a rejected delete of another user's rated Reading that has logged activities
C16_Witness ==
    /\ resp.op = "delete_reading" /\ resp.code = 403
    /\ \E r \in readings :
          /\ r.id = resp.target /\ r.user_id # resp.user /\ r.rating # Null
          /\ books[r.book_id].total_ratings = 1
    /\ Len(activities) > 0

\* two Book rows that share an ISBN, an Open Library id, or title and author
SameWork(x, y) ==
    \/ (x.isbn # Null /\ x.isbn = y.isbn)
    \/ (x.open_library_id # Null /\ x.open_library_id = y.open_library_id)
    \/ (x.title = y.title /\ x.author = y.author)

\* C20: a book-creation request inserts a Book row only when its ISBN, its
\* Open Library id and its title and author match no Book of the catalog;
\* otherwise the catalog is left as it is.
C20_NoSecondBookRow ==
    [][resp'.op = "add_book" =>
          /\ \A b \in DOMAIN books : b \in DOMAIN books' /\ books'[b] = books[b]
          /\ \A n \in DOMAIN books' \ DOMAIN books :
                \A b \in DOMAIN books : ~SameWork(books'[n], books[b])
      ]_vars

\* C17: after a successful generate_recommendations for user U no
\* Recommendation row of U from before the call is left, every row of U is
\* new and has is_dismissed = false, and the rows of the other users are
\* as they were.
C17_RegenerateReplaces ==
    [][(resp'.op = "generate_recommendations" /\ resp'.code = 200) =>
          /\ \A r \in recommendations', o \in recommendations :
                r.user_id = resp'.user => r.id # o.id
          /\ \A r \in recommendations' : r.user_id = resp'.user => ~r.is_dismissed
          /\ {r \in recommendations' : r.user_id # resp'.user}
                = {r \in recommendations : r.user_id # resp'.user}
      ]_vars

\* a second successful generation: the user's rows are new, the first rows
\* are gone, and another user's dismissed row is still there
C17_Witness ==
    /\ resp.op = "generate_recommendations" /\ resp.code = 200
    /\ \E r \in recommendations : r.user_id = resp.user /\ ~r.is_dismissed
    /\ \E o \in recommendations : o.user_id # resp.user /\ o.is_dismissed
    /\ \E id \in 1..(nextRecId - 1) : \A r \in recommendations : r.id # id

\* C18: every Reading's rating is null or an integer from 1 to 5, so no
\* rating outside 1..5 is stored or counted in a Book's aggregate.
C18_RatingInRange ==
    \A r \in readings : r.rating = Null \/ Val(r.rating) \in 1..5

\* the rows other than u (0 for a signup) that hold username n
HeldByOther(usrs, n, u) == \E v \in DOMAIN usrs : v # u /\ usrs[v].username = Some(n)

\* C19: no two User rows have the same non-null username, also when signup
\* and profile-update requests for one username run concurrently; a request
\* that asks for a username another user holds is refused at its check, or
\* fails at its commit, and leaves the users table as it was.
C19_UsernamesUnique ==
    /\ [](\A v \in DOMAIN users, w \in DOMAIN users :
            (v # w /\ users[v].username # Null) => users[v].username # users[w].username)
    /\ [][/\ \A p \in 1..NumProcs :
                (/\ procs[p].pc \in {"signup_insert", "profile_commit"}
                 /\ procs'[p] = Idle
                 /\ HeldByOther(users, procs[p].username, procs[p].user))
                    => (resp'.code = 500 /\ users' = users)
          /\ (/\ resp' # resp /\ procs' = procs
              /\ resp'.op \in {"signup", "update_my_profile"}
              /\ HeldByOther(users, resp'.target, resp'.user))
                    => (resp'.code = 400 /\ users' = users)
         ]_vars

\* a request that passed its check and lost the race: its commit failed
\* while another row holds the username it asked for
C19_Witness ==
    /\ resp.op \in {"signup", "update_my_profile"} /\ resp.code = 500
    /\ HeldByOther(users, resp.target, resp.user)
    /\ \E v \in DOMAIN users : v \notin UserIds

\* C21: a successful update_reading whose patch sets status = finished on a
\* Reading that is already finished leaves finished_at as it was, and one
\* whose patch carries no status leaves started_at and finished_at as they were.
C21_TimestampsOnTransitionOnly ==
    [][\A u \in UserIds, rid \in AnyReadingId, p \in LifecycleUpdates :
          (UpdateReading(u, rid, p) /\ resp'.code = 200) =>
              \A o \in readings, r \in readings' :
                  (o.id = rid /\ r.id = rid) =>
                      /\ (p.has_status /\ p.status = FINISHED /\ o.status = FINISHED)
                            => r.finished_at = o.finished_at
                      /\ ~p.has_status
                            => (r.started_at = o.started_at /\ r.finished_at = o.finished_at)
      ]_vars

\* C22: a successful create_reading appends a finished_book activity exactly
\* when the initial status is finished, a rated_book activity exactly when a
\* rating is supplied and a reviewed_book activity exactly when a review is
\* supplied, whatever the initial status.
C22_CreateActivities ==
    [][\A u \in UserIds, d \in CreateActivityBodies :
          (CreateReading(u, d) /\ resp'.code = 200) =>
              /\ CountType(Appended, "finished_book") = (IF d.status = FINISHED THEN 1 ELSE 0)
              /\ CountType(Appended, "rated_book") = (IF d.rating # Null THEN 1 ELSE 0)
              /\ CountType(Appended, "reviewed_book") = (IF d.review # Null THEN 1 ELSE 0)
      ]_vars

\* C23: every ReviewLike row and every ReviewComment row is attached to a
\* Reading whose review is non-null and whose is_review_public is true, also
\* after the owner hides or clears the review.
C23_InteractionsOnPublicReview ==
    \A x \in likes \cup comments :
        \E r \in readings :
            r.id = x.reading_id /\ r.review # Null /\ r.is_review_public = Some(TRUE)

\* C30: every like and every comment points at a Reading that exists, and a
\* delete_reading by the owner of a Reading succeeds, also when the Reading
\* has likes or comments, and leaves no like and no comment on it.
C30_DeleteLeavesNoInteraction ==
    [][/\ \A x \in likes' \cup comments' : \E r \in readings' : r.id = x.reading_id
       /\ (/\ resp'.op = "delete_reading"
           /\ \E r \in readings : r.id = resp'.target /\ r.user_id = resp'.user)
             => /\ resp'.code = 200
                /\ \A r \in readings' : r.id # resp'.target
                /\ \A x \in likes' \cup comments' : x.reading_id # resp'.target
      ]_vars

\* C26: when update_book_rating fails after delete_reading has committed the
\* deletion, the request ends in an error, the Reading stays deleted and the
\* Book keeps the average_rating and total_ratings it had.
C26_DeleteNotAtomic ==
    [][\A p \in 1..NumProcs :
          (/\ procs[p].pc \in {"recompute_stats", "recompute_write"}
           /\ procs[p].op = "delete_reading"
           /\ procs'[p] = Idle /\ resp'.code = 500)
             => /\ \A r \in readings' : r.id # procs[p].target
                /\ readings' = readings
                /\ books' = books
      ]_vars

\* a failed recompute after the delete of a Book's only rated Reading: the
\* Reading is gone and the Book still counts its rating
C26_Witness ==
    /\ resp.op = "delete_reading" /\ resp.code = 500
    /\ \A r \in readings : r.id # resp.target
    /\ RatedReadings(readings, 1) = {}
    /\ books[1].total_ratings = 1 /\ books[1].average_rating = 400

\* C27: once concurrent requests that create, re-rate or delete Readings of
\* one Book have all completed, the Book's average_rating and total_ratings
\* are the aggregate over its rated Readings, for every interleaving.
C27_ConcurrentAggregate ==
    (\A p \in 1..NumProcs : procs[p] = Idle) =>
        \A b \in DOMAIN books :
            RatedReadings(readings, b) # {} =>
                <<books[b].average_rating, books[b].total_ratings>> = AggregateOf(readings, b)

Follows(fls, v, u) == u = v \/ \E f \in fls : f.follower_id = v /\ f.following_id = u

ByIsbn(bks, d) == {b \in DOMAIN bks : d.isbn # Null /\ bks[b].isbn = d.isbn}
ById(bks, d) ==
    {b \in DOMAIN bks : d.open_library_id # Null /\ bks[b].open_library_id = d.open_library_id}
ByTitle(bks, d) ==
    {b \in DOMAIN bks : /\ Substring(LowerCase(d.title), LowerCase(bks[b].title))
                        /\ Substring(LowerCase(d.author), LowerCase(bks[b].author))}

\* C25: get_or_create_book returns the Book the ISBN matches whatever the
\* Open Library id and title and author match; with no ISBN match it returns
\* the Book the Open Library id matches whatever title and author match;
\* title and author decide only when neither key matches; a matched call
\* inserts nothing.
C25_KeyPriority ==
    [][resp'.op = "get_or_create_book" =>
          LET d == bookCall'.body
          IN /\ ByIsbn(books, d) # {}
                   => (bookCall'.book = ByIsbn(books, d) /\ books' = books)
             /\ (ByIsbn(books, d) = {} /\ ById(books, d) # {})
                   => (bookCall'.book = ById(books, d) /\ books' = books)
             /\ (bookCall'.book # Null /\ Val(bookCall'.book) \in DOMAIN books
                 /\ bookCall'.book # ByIsbn(books, d) /\ bookCall'.book # ById(books, d))
                   => (/\ ByIsbn(books, d) = {} /\ ById(books, d) = {}
                       /\ bookCall'.book = ByTitle(books, d))
      ]_vars

\* a call whose ISBN matches one Book, whose Open Library id matches another
\* and whose title and author match a third: the first is returned
C25_Witness ==
    /\ bookCall.called
    /\ \E a \in ByIsbn(books, bookCall.body), b \in ById(books, bookCall.body),
          c \in ByTitle(books, bookCall.body) :
            /\ a # b /\ a # c /\ b # c
            /\ bookCall.book = Some(a)

\* the items of a reply that have title, author and reason, cleaned, and
\* those of them whose lowercased (title, author) pair is not in the library
ValidItems(items) ==
    LET keyed == SelectSeq(items, HasKeys)
    IN [i \in DOMAIN keyed |-> CleanItem(keyed[i])]
Survivors(items, user_books) ==
    SelectSeq(ValidItems(items), LAMBDA r : ItemPair(r) \notin LibraryPairs(user_books))

\* a call that reached the model and got a reply that parses as a JSON object
ParsedJson(call) ==
    /\ call.called /\ call.has_key /\ ~call.history_empty
    /\ call.reply.kind = "content" /\ call.reply.json = "object"

\* C28: when the reply parses as JSON and at least one item with title,
\* author and reason is not in the library, get_ai_recommendations returns
\* exactly those items, in the reply's order, cut to the requested number; an
\* item with a library book's title and another author is among them.
C28_ReturnsSurvivingItems ==
    (ParsedJson(recCall) /\ Survivors(recCall.reply.items, recCall.user_books) # <<>>) =>
        recCall.result.ret
            = Some(Take(Survivors(recCall.reply.items, recCall.user_books), recCall.n))

\* the built-in list, less the books of the library when some book is left
BuiltIn(user_books) ==
    {get_fallback_recommendations,
     SelectSeq(get_fallback_recommendations,
               LAMBDA r : ItemPair(r) \notin LibraryPairs(user_books))} \ {<<>>}

\* a call that fails altogether: no API key, no history, a network or HTTP
\* error, or a JSON reply none of whose items is valid and not owned
TotalFailure(call) ==
    /\ call.called
    /\ \/ ~call.has_key
       \/ call.history_empty
       \/ call.reply.kind \in {"network_error", "bad_status"}
       \/ /\ call.reply.kind = "content" /\ call.reply.json = "object"
          /\ \A i \in DOMAIN call.reply.items : ~ItemRaises(call.reply.items[i])
          /\ Survivors(call.reply.items, call.user_books) = <<>>

\* C29: in every total-failure case get_ai_recommendations returns the
\* built-in list of three books (here: also with the owned books taken out),
\* never an empty list and never text scraped from the reply.
C29_FailureReturnsBuiltIn ==
    TotalFailure(recCall) =>
        (recCall.result.ret # Null /\ Val(recCall.result.ret) \in BuiltIn(recCall.user_books))

====
